---- MODULE Spec2Model ----
(***************************************************************************)
(* A model of fdl::InteractionBase (the three-phase transfer pipeline      *)
(* compute_projection_rhs_start / _intermediate / _finish and its registry *)
(* of DoFHandlers) running as one pipeline object per MPI process.         *)
(*                                                                         *)
(* Scatter, compute_overlap_to_native_dof_translation and the overlap mesh *)
(* construction are not part of the sources at hand; they are modelled     *)
(* from the design document (sections 4.3 - 4.5).                          *)
(***************************************************************************)
EXTENDS Integers, Sequences, FiniteSets, TLC

\* ------------------------------------------------------------ bounds
NDofs == 2          \* native degrees of freedom (one per active native cell)
MaxTrans == 1       \* Transactions a process runs, one after the other
MaxAddCalls == 3    \* add_dof_handler calls in the registration runs
MaxReinits == 2     \* reinit calls after construction in the lifecycle runs
MaxCoord == 3       \* box coordinates are 0 .. MaxCoord
MaxMoves == 1       \* times the native mesh moves without a reinit
MaxBatch == 2     \* Transactions started before any is drained

Procs == 1 .. 2
Dofs == 0 .. (NDofs - 1)
Cells == Dofs
Handlers == {"hA", "hB"}
ForeignHandlers == {"hC"}   \* a DoFHandler built on another triangulation
Channels == {0, 1}
Comms == {"world", "sub"}   \* communicators a native mesh can be built on
Axes == 1 .. 2              \* spacedim = 2
Coords == 0 .. MaxCoord
OverlapSizes == 0 .. 2   \* overlap-local degrees of freedom per process

\* ------------------------------------------------------------ helpers
Range(s) == {s[k] : k \in DOMAIN s}

Min(S) == CHOOSE x \in S : \A y \in S : x <= y

RECURSIVE SortedSeq(_)
SortedSeq(S) == IF S = {} THEN << >> ELSE << Min(S) >> \o SortedSeq(S \ {Min(S)})

\* position (1-based) of x in the ascending enumeration of S
Rank(S, x) == Cardinality({y \in S : y <= x})

RECURSIVE SumSeq(_)
SumSeq(s) == IF s = << >> THEN 0 ELSE Head(s) + SumSeq(Tail(s))

RECURSIVE SumOver(_, _)
SumOver(S, f) ==
  IF S = {} THEN 0 ELSE LET x == CHOOSE y \in S : TRUE IN f[x] + SumOver(S \ {x}, f)

Zeros(n) == [k \in 1 .. n |-> 0]

Get(payload, i) == IF i \in DOMAIN payload THEN payload[i] ELSE 0

Tables == UNION {[1 .. n -> Dofs] : n \in OverlapSizes}

\* ------------------------------------------------------------ state
VARIABLES
  debug,                          \* the build defines DEBUG (Assert is active)
  n_procs,                        \* size of the native mesh's communicator
  translation,                    \* per process: overlap-local dof -> native dof
  overlap_tria,                   \* per process: native cells of the overlap mesh
  communicator,                   \* per process: the pipeline's duplicated handle
  active_cell_index_partitioner,  \* per process: the quadrature-index plan
  native_dof_handlers,            \* per process: registered native handlers
  overlap_dof_handlers,           \* per process: their overlap handlers
  scatters,                       \* per process: their Scatters
  n_add_calls,                    \* add_dof_handler calls made so far
  X_dof_handler, F_dof_handler,   \* the handlers the caller passes to start
  integrator,                     \* what the caller computes between transfers
  native_X,                       \* the caller's source vector X
  F_rhs,                          \* the caller's result vector F_rhs
  F_before,                       \* F_rhs as it was passed to the first start
  trans,                          \* per process: the Transactions, in start order
  pc,                             \* per process: position inside the pipeline
  net,                            \* messages in flight, per (from, to, channel)
  native_comm,                    \* per process: native_tria->get_communicator()
  n_duplicates,                   \* per process: communicators duplicated so far
  freed,                          \* per process: handles MPI_Comm_free released
  n_reinits,                      \* per process: reinit calls after construction
  outcome,                        \* per process: how the last call ended
  box_a, box_b,                   \* the arguments a and b of intersects
  intersects_result,              \* << >>, or the value intersects returned
  patch_bboxes,                   \* the region boxes given to a predicate
  cell_bbox,                      \* per active cell: the box its owner computes
  active_cell_bboxes,             \* per process: FEIntersectionPredicate's array
  fe_pc,                          \* per process: position in its constructor
  predicate_result,               \* the last predicate call and what it returned
  region_bboxes,                  \* per process: the patch boxes of its reinit
  native_cells,                   \* per process: OverlapTriangulation::native_cells
  overlap_cells,                  \* per process: the active overlap cells, as built
  native_moves,                   \* times the native mesh moved since construction
  native_cell_result,             \* the last get_native_cell call and how it ended
  cell_iterators_in_active_native_order  \* per process: positions in overlap_cells

life_vars == << native_comm, n_duplicates, freed, n_reinits, outcome >>
box_vars == << box_a, box_b, intersects_result >>
pred_vars == << patch_bboxes, cell_bbox, active_cell_bboxes, fe_pc,
                predicate_result >>
mesh_vars == << region_bboxes, native_cells, overlap_cells, native_moves,
                native_cell_result, cell_iterators_in_active_native_order >>
geo_vars == << box_vars, pred_vars, mesh_vars >>
cfg_vars == << debug, n_procs, translation, overlap_tria, communicator,
               active_cell_index_partitioner, X_dof_handler, F_dof_handler,
               integrator, native_X, F_before, life_vars, geo_vars >>
reg_vars == << native_dof_handlers, overlap_dof_handlers, scatters, n_add_calls >>
run_vars == << F_rhs, trans, pc, net >>
run_vars_but_pc == << F_rhs, trans, net >>

\* no call has ended yet
no_outcome ==
  [call |-> "none", handler |-> "none", threw |-> FALSE, reported |-> FALSE,
   ierr |-> 0, value |-> << >>]
vars == << cfg_vars, reg_vars, run_vars >>

Active == 1 .. n_procs

\* parallel::shared::Triangulation: owner of native cell / dof i
Owner(i) == (i % n_procs) + 1

locally_owned_dofs(p) == {i \in Dofs : Owner(i) = p}

locally_owned_cells(p) == {c \in Cells : Owner(c) = p}

n_locally_owned_active_cells(p) == Cardinality(locally_owned_cells(p))

\* lines 115-132 with the overlap mesh's own cell numbers as ghost indices
reinit_partitioner_overlap_local(p, tria, comm) ==
  [locally_owned |-> locally_owned_cells(p),
   ghost |-> 0 .. (Cardinality(tria) - 1),
   communicator |-> comm]

\* reinit, lines 115-132: the active cell index partitioner
reinit_partitioner(p, tria, comm) ==
  [locally_owned |-> locally_owned_cells(p),
   ghost |-> tria,
   communicator |-> comm]

\* lines 134-135: active_cell_index_partitioner.temporary_storage_size(), the
\* entries process p sends and receives in one exchange
quad_index_work_size(p) ==
  Cardinality({c \in active_cell_index_partitioner[p].ghost : Owner(c) # p})
    + Cardinality({pair \in (Active \ {p}) \X Cells :
                     /\ pair[2] \in active_cell_index_partitioner[pair[1]].ghost
                     /\ Owner(pair[2]) = p})

\* lines 137-138: n_targets.first + n_targets.second, the processes p sends
\* to and the processes it receives from
n_quad_index_requests(p) ==
  Cardinality({q \in Active \ {p} :
                 \E c \in active_cell_index_partitioner[q].ghost : Owner(c) = p})
    + Cardinality({q \in Active \ {p} :
                     \E c \in active_cell_index_partitioner[p].ghost : Owner(c) = q})

\* compute_overlap_to_native_dof_translation: one native index per overlap dof
compute_overlap_to_native_dof_translation(p) == translation[p]

\* std::find over native_dof_handlers: the position of h, 0 for end()
find(p, h) ==
  IF \E j \in DOMAIN native_dof_handlers[p] : native_dof_handlers[p][j] = h
  THEN Min({j \in DOMAIN native_dof_handlers[p] : native_dof_handlers[p][j] = h})
  ELSE 0

is_registered(p, h) == find(p, h) # 0

get_overlap_dof_handler(p, h) == overlap_dof_handlers[p][find(p, h)]

get_scatter(p, h) == scatters[p][find(p, h)]

\* ------------------------------------------------------------ registry
\* lines 216-220: the overlap DoFHandler made for native handler h
new_overlap_dof_handler(p, h) ==
  [native |-> h, n_dofs |-> Len(compute_overlap_to_native_dof_translation(p))]

\* lines 222-228 with the overlap dofs' own numbers in place of the table
new_scatter_untranslated(p, h) ==
  [native |-> h,
   overlap_dofs |-> [k \in DOMAIN compute_overlap_to_native_dof_translation(p)
                       |-> k - 1],
   local |-> locally_owned_dofs(p),
   communicator |-> communicator[p]]

\* lines 222-228: the Scatter made for native handler h
new_scatter(p, h) ==
  [native |-> h,
   overlap_dofs |-> compute_overlap_to_native_dof_translation(p),
   local |-> locally_owned_dofs(p),
   communicator |-> communicator[p]]

\* lines 210-229 without the lookup: every call appends
add_dof_handler_registry_always(p, h) ==
  << Append(native_dof_handlers[p], h),
     Append(overlap_dof_handlers[p], new_overlap_dof_handler(p, h)),
     Append(scatters[p], new_scatter(p, h)) >>

\* the new entries put at the front of overlap_dof_handlers and scatters
add_dof_handler_registry_front(p, h) ==
  IF find(p, h) = 0
  THEN << Append(native_dof_handlers[p], h),
          << new_overlap_dof_handler(p, h) >> \o overlap_dof_handlers[p],
          << new_scatter(p, h) >> \o scatters[p] >>
  ELSE << native_dof_handlers[p], overlap_dof_handlers[p], scatters[p] >>

\* add_dof_handler on process p, as the new values of the three vectors
add_dof_handler_registry(p, h) ==
  IF find(p, h) = 0
  THEN << Append(native_dof_handlers[p], h),
          Append(overlap_dof_handlers[p], new_overlap_dof_handler(p, h)),
          Append(scatters[p], new_scatter(p, h)) >>
  ELSE << native_dof_handlers[p], overlap_dof_handlers[p], scatters[p] >>

\* native_dof_handler.get_triangulation()
get_triangulation(h) == IF h \in Handlers THEN "native_tria" ELSE "another_tria"

\* lines 206-208 without the comparison
on_native_tria_unchecked(p, h) == TRUE

\* lines 206-208: &native_dof_handler.get_triangulation() == native_tria
on_native_tria(p, h) == get_triangulation(h) = "native_tria"

\* lines 201-208 for a handler on another triangulation: AssertThrow throws
\* in every build, before the registry is looked at
add_dof_handler_throws(p, h) ==
  /\ p \in Active
  /\ pc[p] = "idle"
  /\ trans[p] = << >>
  /\ ~on_native_tria(p, h)
  /\ outcome' = [outcome EXCEPT ![p] =
                   [no_outcome EXCEPT !.call = "add_dof_handler",
                                      !.handler = h, !.threw = TRUE]]
  /\ UNCHANGED << debug, n_procs, translation, overlap_tria, communicator,
                  active_cell_index_partitioner, X_dof_handler, F_dof_handler,
                  integrator, native_X, F_before, native_comm, n_duplicates,
                  freed, n_reinits, geo_vars, reg_vars, run_vars >>

\* lines 201-230 for a handler that passes the check of lines 206-208
add_dof_handler(p, h) ==
  /\ p \in Active
  /\ pc[p] = "idle"
  /\ on_native_tria(p, h)
  /\ trans[p] = << >>
  /\ n_add_calls[p] < MaxAddCalls
  /\ native_dof_handlers' =
       [native_dof_handlers EXCEPT ![p] = add_dof_handler_registry(p, h)[1]]
  /\ overlap_dof_handlers' =
       [overlap_dof_handlers EXCEPT ![p] = add_dof_handler_registry(p, h)[2]]
  /\ scatters' = [scatters EXCEPT ![p] = add_dof_handler_registry(p, h)[3]]
  /\ n_add_calls' = [n_add_calls EXCEPT ![p] = @ + 1]
  /\ UNCHANGED << cfg_vars, run_vars >>

\* ------------------------------------------------------------ transfers
\* the native dofs of q's overlap handler that process o owns
Needs(q, o) == {i \in Range(translation[q]) : Owner(i) = o}

\* the ghost cells of q's quadrature-index plan that process o owns
NeedsCells(q, o) ==
  {c \in active_cell_index_partitioner[q].ghost : Owner(c) = o}

\* MPI_Isend of one message per peer with a nonempty payload
Send(n, p, channel, payload) ==
  [k \in DOMAIN n |->
     IF k[1] = p /\ k[2] # p /\ k[2] \in Active /\ k[3] = channel
        /\ DOMAIN payload[k[2]] # {}
     THEN Append(n[k], payload[k[2]])
     ELSE n[k]]

\* completion of the receives from the processes in `from` on `channel`
Arrived(p, from, channel) == \A q \in from : net[<< q, p, channel >>] # << >>

Receive(n, p, from, channel) ==
  [k \in DOMAIN n |->
     IF k[1] \in from /\ k[2] = p /\ k[3] = channel THEN Tail(n[k]) ELSE n[k]]

\* Scatter::global_to_overlap_start: the owned entries other processes read
global_to_overlap_start(n, p, sc, X, channel) ==
  Send(n, p, channel, [q \in Procs |-> [i \in Needs(q, p) |-> X[i]]])

\* a finish that expects a message from every other process
global_to_overlap_sources_all(p, sc) == Active \ {p}

\* the owners of the overlap dofs process p does not own: the finish of the
\* X scatter waits for them
global_to_overlap_sources(p, sc) ==
  {q \in Active \ {p} : \E k \in DOMAIN sc.overlap_dofs : Owner(sc.overlap_dofs[k]) = q}

\* Scatter::global_to_overlap_finish: the overlap vector, gathered by the table
global_to_overlap_finish(p, sc, X, channel) ==
  [k \in DOMAIN sc.overlap_dofs |->
     LET i == sc.overlap_dofs[k] IN
       IF i \in sc.local THEN X[i]
       ELSE Get(Head(net[<< Owner(i), p, channel >>]), i)]

\* the value an overlap vector contributes to native dof i
Accumulate(table, input, i) ==
  SumSeq([k \in DOMAIN table |-> IF table[k] = i /\ k \in DOMAIN input
                                 THEN input[k] ELSE 0])

\* Scatter::overlap_to_global_start: the ghost entries go to their owners
overlap_to_global_start(n, p, sc, input, channel) ==
  Send(n, p, channel,
       [q \in Procs |->
          [i \in {j \in Range(sc.overlap_dofs) : Owner(j) = q} |->
             Accumulate(sc.overlap_dofs, input, i)]])

\* a finish that expects a contribution from every other process
overlap_to_global_sources_all(p) == Active \ {p}

\* the processes whose overlap holds dofs that p owns: p's finish waits for them
overlap_to_global_sources(p) == {q \in Active \ {p} : Needs(q, p) # {}}

\* a finish that receives and drops the contributions
overlap_to_global_finish_dropped(p, sc, input, operation, channel, F) == F

\* Scatter::overlap_to_global_finish: the owned entries of the native vector
overlap_to_global_finish(p, sc, input, operation, channel, F) ==
  [i \in Dofs |->
     IF i \notin sc.local THEN F[i]
     ELSE LET own == Accumulate(sc.overlap_dofs, input, i)
              from == {q \in overlap_to_global_sources(p) :
                         i \in DOMAIN Head(net[<< q, p, channel >>])}
              got == SumOver(from, [q \in from |->
                               Head(net[<< q, p, channel >>])[i]])
          IN IF operation = "add" THEN F[i] + own + got
             ELSE IF from # {} \/ i \in Range(sc.overlap_dofs) THEN own + got
             ELSE F[i]]

\* NoncontiguousPartitioner::export_to_ghosted_array_start
export_to_ghosted_array_start(n, p, part, channel, src) ==
  Send(n, p, channel,
       [q \in Procs |->
          [c \in NeedsCells(q, p) |-> src[Rank(part.locally_owned, c)]]])

export_to_ghosted_array_sources(p, part) ==
  {q \in Active \ {p} : \E c \in part.ghost : Owner(c) = q}

\* NoncontiguousPartitioner::export_to_ghosted_array_finish: one entry per
\* ghost index, in ascending order of the index
export_to_ghosted_array_finish(p, part, channel, src) ==
  [k \in 1 .. Cardinality(part.ghost) |->
     LET c == SortedSeq(part.ghost)[k] IN
       IF c \in part.locally_owned THEN src[Rank(part.locally_owned, c)]
       ELSE Get(Head(net[<< Owner(c), p, channel >>]), c)]

\* ------------------------------------------------------------ Transaction
\* line 301: int channel = 0
X_channel == 0

\* lines 305-308 without the increment of line 305
quad_channel_not_incremented == X_channel

\* lines 305-308: ++channel, the channel of the quadrature-index exchange
quad_channel == X_channel + 1

\* line 347: int channel = 0
F_channel == 0

\* lines 349 and 374 with VectorOperation::insert
F_operation_insert == "insert"

\* lines 349 and 374: VectorOperation::add
F_operation == "add"

\* line 292
start_next_state == "Intermediate"

\* line 353
intermediate_next_state == "Finish"

\* line 376
finish_next_state == "Done"

\* lines 331-333: the body of intermediate begins by finishing the X scatter
intermediate_first_step == "global_to_overlap_finish"

\* lines 335-338 left out: the F scatter would start right after the X finish
intermediate_second_step_skipped == "overlap_to_global_start"

\* lines 335-338: then it finishes the quadrature-index exchange
intermediate_second_step == "export_to_ghosted_array_finish"

\* lines 340-351: and only then starts the F scatter
intermediate_third_step == "overlap_to_global_start"

\* the caller's quad_indices: one entry per locally owned cell, ascending
quad_indices(p) ==
  [j \in 1 .. n_locally_owned_active_cells(p) |->
     SortedSeq(locally_owned_cells(p))[j] + 1]

\* lines 265-294: the Transaction compute_projection_rhs_start sets up
new_transaction(p) ==
  [native_quad_indices |-> quad_indices(p),
   overlap_quad_indices |-> Zeros(Cardinality(overlap_tria[p])),
   native_X_dof_handler |-> X_dof_handler,
   overlap_X_vec |-> Zeros(get_overlap_dof_handler(p, X_dof_handler).n_dofs),
   native_F_dof_handler |-> F_dof_handler,
   overlap_F_rhs |-> Zeros(get_overlap_dof_handler(p, F_dof_handler).n_dofs),
   next_state |-> start_next_state,
   operation |-> "Interpolation",
   requests |-> {[op |-> "global_to_overlap", channel |-> X_channel],
                 [op |-> "export_to_ghosted_array", channel |-> quad_channel]}]

current(p) == trans[p][Len(trans[p])]

SetCurrent(p, t) == [trans EXCEPT ![p][Len(trans[p])] = t]

ChannelOf(t, op) == (CHOOSE r \in t.requests : r.op = op).channel

Started(t, op) == \E r \in t.requests : r.op = op

\* lines 234-314 with a wait for the X scatter's receives added to the start
compute_projection_rhs_start_waits(p) ==
  /\ p \in Active
  /\ pc[p] = "idle"
  /\ Len(trans[p]) < MaxTrans
  /\ \A n \in DOMAIN trans[p] : trans[p][n].next_state = "Done"
  /\ is_registered(p, X_dof_handler)
  /\ is_registered(p, F_dof_handler)
  /\ Arrived(p, global_to_overlap_sources(p, get_scatter(p, X_dof_handler)),
             X_channel)
  /\ LET t == new_transaction(p)
         n1 == global_to_overlap_start(net, p, get_scatter(p, X_dof_handler),
                                       native_X, X_channel)
     IN /\ trans' = [trans EXCEPT ![p] = Append(@, t)]
        /\ net' = export_to_ghosted_array_start(
                    n1, p, active_cell_index_partitioner[p], quad_channel,
                    t.native_quad_indices)
  /\ UNCHANGED << cfg_vars, reg_vars, F_rhs, pc >>

compute_projection_rhs_start(p) ==
  /\ p \in Active
  /\ pc[p] = "idle"
  /\ Len(trans[p]) < MaxTrans
  /\ \A n \in DOMAIN trans[p] : trans[p][n].next_state = "Done"
  /\ is_registered(p, X_dof_handler)
  /\ is_registered(p, F_dof_handler)
  /\ LET t == new_transaction(p)
         n1 == global_to_overlap_start(net, p, get_scatter(p, X_dof_handler),
                                       native_X, X_channel)
     IN /\ trans' = [trans EXCEPT ![p] = Append(@, t)]
        /\ net' = export_to_ghosted_array_start(
                    n1, p, active_cell_index_partitioner[p], quad_channel,
                    t.native_quad_indices)
  /\ UNCHANGED << cfg_vars, reg_vars, F_rhs, pc >>

\* lines 324-329: the two assertions of compute_projection_rhs_intermediate
intermediate_asserts(t) ==
  t.operation = "Interpolation" /\ t.next_state = "Intermediate"

\* lines 366-370: the two assertions of compute_projection_rhs_finish
finish_asserts(t) ==
  t.operation = "Interpolation" /\ t.next_state = "Finish"

\* entry of compute_projection_rhs_intermediate, up to its first wait.  Assert
\* aborts only in a DEBUG build; without DEBUG a call in the wrong state runs
\* the body on transfers that were never started, which is undefined: the
\* model records the assignment of line 353 and follows the process no further.
compute_projection_rhs_intermediate(p) ==
  /\ p \in Active
  /\ pc[p] = "idle"
  /\ trans[p] # << >>
  /\ current(p).next_state # "Done"
  /\ IF intermediate_asserts(current(p))
     THEN /\ pc' = [pc EXCEPT ![p] = intermediate_first_step]
          /\ UNCHANGED trans
     ELSE IF debug
     THEN /\ pc' = [pc EXCEPT ![p] = "aborted"]
          /\ UNCHANGED trans
     ELSE /\ pc' = [pc EXCEPT ![p] = "undefined"]
          /\ trans' = SetCurrent(p, [current(p) EXCEPT
                                       !.next_state = intermediate_next_state])
  /\ UNCHANGED << cfg_vars, reg_vars, F_rhs, net >>

\* lines 331-333
intermediate_global_to_overlap_finish(p) ==
  /\ p \in Active
  /\ pc[p] = "global_to_overlap_finish"
  /\ LET t == current(p)
         sc == get_scatter(p, t.native_X_dof_handler)
         ch == ChannelOf(t, "global_to_overlap")
         from == global_to_overlap_sources(p, sc)
     IN /\ Arrived(p, from, ch)
        /\ trans' = SetCurrent(p,
             [t EXCEPT !.overlap_X_vec = global_to_overlap_finish(p, sc, native_X, ch),
                       !.requests = {r \in @ : r.op # "global_to_overlap"}])
        /\ net' = Receive(net, p, from, ch)
  /\ pc' = [pc EXCEPT ![p] = intermediate_second_step]
  /\ UNCHANGED << cfg_vars, reg_vars, F_rhs >>

\* lines 335-338
intermediate_export_to_ghosted_array_finish(p) ==
  /\ p \in Active
  /\ pc[p] = "export_to_ghosted_array_finish"
  /\ LET t == current(p)
         part == active_cell_index_partitioner[p]
         ch == ChannelOf(t, "export_to_ghosted_array")
         from == export_to_ghosted_array_sources(p, part)
     IN /\ Arrived(p, from, ch)
        /\ trans' = SetCurrent(p,
             [t EXCEPT !.overlap_quad_indices =
                          export_to_ghosted_array_finish(p, part, ch,
                                                         t.native_quad_indices),
                       !.requests = {r \in @ : r.op # "export_to_ghosted_array"}])
        /\ net' = Receive(net, p, from, ch)
  /\ pc' = [pc EXCEPT ![p] = intermediate_third_step]
  /\ UNCHANGED << cfg_vars, reg_vars, F_rhs >>

\* line 340 with an integration that writes the overlap result in every
\* pipeline
integrate_unit(t) == [k \in DOMAIN t.overlap_F_rhs |-> 1]

\* line 340: the finite-element integration a derived pipeline does here; the
\* base pipeline ("none") does nothing
integrate(t) ==
  CASE integrator = "none" -> t.overlap_F_rhs
    [] integrator = "unit" -> [k \in DOMAIN t.overlap_F_rhs |-> 1]
    [] integrator = "identity" ->
         [k \in DOMAIN t.overlap_F_rhs |-> t.overlap_X_vec[k]]

\* lines 340-355
intermediate_overlap_to_global_start(p) ==
  /\ p \in Active
  /\ pc[p] = "overlap_to_global_start"
  /\ LET t == current(p)
         sc == get_scatter(p, t.native_F_dof_handler)
         f == integrate(t)
     IN /\ net' = overlap_to_global_start(net, p, sc, f, F_channel)
        /\ trans' = SetCurrent(p,
             [t EXCEPT !.overlap_F_rhs = f,
                       !.requests = @ \cup {[op |-> "overlap_to_global",
                                             channel |-> F_channel]},
                       !.next_state = intermediate_next_state])
  /\ pc' = [pc EXCEPT ![p] = "idle"]
  /\ UNCHANGED << cfg_vars, reg_vars, F_rhs >>

\* entry of compute_projection_rhs_finish, up to its wait (see the entry of
\* compute_projection_rhs_intermediate for the build without DEBUG; line 376)
compute_projection_rhs_finish(p) ==
  /\ p \in Active
  /\ pc[p] = "idle"
  /\ trans[p] # << >>
  /\ current(p).next_state # "Done"
  /\ IF finish_asserts(current(p))
     THEN /\ pc' = [pc EXCEPT ![p] = "overlap_to_global_finish"]
          /\ UNCHANGED trans
     ELSE IF debug
     THEN /\ pc' = [pc EXCEPT ![p] = "aborted"]
          /\ UNCHANGED trans
     ELSE /\ pc' = [pc EXCEPT ![p] = "undefined"]
          /\ trans' = SetCurrent(p, [current(p) EXCEPT
                                       !.next_state = finish_next_state])
  /\ UNCHANGED << cfg_vars, reg_vars, F_rhs, net >>

\* lines 372-376 followed by a release of the quadrature-index plan
finish_overlap_to_global_finish_clears_plan(p) ==
  /\ p \in Active
  /\ pc[p] = "overlap_to_global_finish"
  /\ LET t == current(p)
         sc == get_scatter(p, t.native_F_dof_handler)
         ch == ChannelOf(t, "overlap_to_global")
         from == overlap_to_global_sources(p)
     IN /\ Arrived(p, from, ch)
        /\ F_rhs' = overlap_to_global_finish(p, sc, t.overlap_F_rhs, F_operation,
                                             ch, F_rhs)
        /\ net' = Receive(net, p, from, ch)
        /\ trans' = SetCurrent(p,
             [t EXCEPT !.requests = {r \in @ : r.op # "overlap_to_global"},
                       !.next_state = finish_next_state])
  /\ pc' = [pc EXCEPT ![p] = "idle"]
  /\ active_cell_index_partitioner' =
       [active_cell_index_partitioner EXCEPT
          ![p] = reinit_partitioner(p, {}, communicator[p])]
  /\ UNCHANGED << debug, n_procs, translation, overlap_tria, communicator,
                  X_dof_handler, F_dof_handler, integrator, native_X, F_before,
                  life_vars, geo_vars, reg_vars >>

\* lines 372-376
finish_overlap_to_global_finish(p) ==
  /\ p \in Active
  /\ pc[p] = "overlap_to_global_finish"
  /\ LET t == current(p)
         sc == get_scatter(p, t.native_F_dof_handler)
         ch == ChannelOf(t, "overlap_to_global")
         from == overlap_to_global_sources(p)
     IN /\ Arrived(p, from, ch)
        /\ F_rhs' = overlap_to_global_finish(p, sc, t.overlap_F_rhs, F_operation,
                                             ch, F_rhs)
        /\ net' = Receive(net, p, from, ch)
        /\ trans' = SetCurrent(p,
             [t EXCEPT !.requests = {r \in @ : r.op # "overlap_to_global"},
                       !.next_state = finish_next_state])
  /\ pc' = [pc EXCEPT ![p] = "idle"]
  /\ UNCHANGED << cfg_vars, reg_vars >>

\* ------------------------------------------------------------ boxes
\* BoundingBox<spacedim>: axis-aligned, lower_bound(d) <= upper_bound(d)
Box(lx, ux, ly, uy) == [lower |-> << lx, ly >>, upper |-> << ux, uy >>]

Boxes ==
  {Box(lx, ux, ly, uy) : lx \in Coords, ux \in Coords, ly \in Coords, uy \in Coords}
    \ {bx \in [lower : Coords \X Coords, upper : Coords \X Coords] :
         \E d \in Axes : bx.lower[d] > bx.upper[d]}

\* lines 65-70 with strict comparisons
intersects_strict(a, b) ==
  \A d \in Axes :
    ~(/\ ~(\/ (a.lower[d] < b.lower[d] /\ b.lower[d] < a.upper[d])
           \/ (a.lower[d] < b.upper[d] /\ b.upper[d] < a.upper[d]))
      /\ ~(b.lower[d] < a.lower[d] /\ a.lower[d] < b.upper[d]))

\* part_001 lines 47-77: false as soon as one axis fails the test of lines 65-70
intersects(a, b) ==
  \A d \in Axes :
    ~(/\ ~(\/ (a.lower[d] <= b.lower[d] /\ b.lower[d] <= a.upper[d])
           \/ (a.lower[d] <= b.upper[d] /\ b.upper[d] <= a.upper[d]))
      /\ ~(b.lower[d] <= a.lower[d] /\ a.lower[d] <= b.upper[d]))

\* no box query is under way
NoBoxes ==
  /\ box_a = Box(0, 0, 0, 0)
  /\ box_b = Box(0, 0, 0, 0)
  /\ intersects_result = << >>

\* a caller evaluates intersects(box_a, box_b)
call_intersects ==
  /\ intersects_result = << >>
  /\ intersects_result' = << intersects(box_a, box_b) >>
  /\ UNCHANGED << debug, n_procs, translation, overlap_tria, communicator,
                  active_cell_index_partitioner, X_dof_handler, F_dof_handler,
                  integrator, native_X, F_before, life_vars, box_a, box_b,
                  pred_vars, mesh_vars, reg_vars, run_vars >>

\* ------------------------------------------------------------ predicates
\* the native mesh of the predicate runs: coarse cell 0 has children 1 and 2,
\* cell 1 has children 3 and 4; cells 2, 3 and 4 are active
MeshCells == 0 .. 4

children(c) ==
  CASE c = 0 -> << 1, 2 >>
    [] c = 1 -> << 3, 4 >>
    [] OTHER -> << >>

has_children(c) == children(c) # << >>

\* TriaAccessor::is_active: a cell is active exactly when it has no children
is_active(c) == ~has_children(c)

ActiveCells == {c \in MeshCells : is_active(c)}

\* cell->active_cell_index(): the active cells numbered in ascending order
active_cell_index(c) == Rank(ActiveCells, c) - 1

ActiveIndices == {active_cell_index(c) : c \in ActiveCells}

ZeroBox == Box(0, 0, 0, 0)

\* BoundingBox::volume
volume(bx) == (bx.upper[1] - bx.lower[1]) * (bx.upper[2] - bx.lower[2])

\* the boxes a cell's nodes can span: one of them flat, one with a corner
\* that single precision cannot hold
CellBoxes == {Box(0, 1, 0, 1), Box(2, 3, 2, 3), Box(1, 1, 0, 1), Box(2, 5, 2, 5)}

\* the region boxes a caller can pass
PatchBoxes == {Box(0, 1, 2, 3), Box(2, 3, 0, 1), Box(3, 3, 3, 3), Box(5, 5, 5, 5)}

\* the significand of the model's single precision holds FloatDigits bits
FloatDigits == 2

\* the spacing of the single precision numbers around x >= 0
RECURSIVE float_ulp(_)
float_ulp(x) == IF x < 2 ^ FloatDigits THEN 1 ELSE 2 * float_ulp(x \div 2)

\* double to float, round to nearest, ties to the even significand
to_float(x) ==
  LET ulp == float_ulp(x)
      lo == x - (x % ulp)
  IN  IF 2 * (x % ulp) < ulp THEN lo
      ELSE IF 2 * (x % ulp) > ulp THEN lo + ulp
      ELSE IF (lo \div ulp) % 2 = 0 THEN lo ELSE lo + ulp

\* part_001 lines 155-156: the boundary points of dbox copied into fbox
fbox(dbox) ==
  [lower |-> [d \in Axes |-> to_float(dbox.lower[d])],
   upper |-> [d \in Axes |-> to_float(dbox.upper[d])]]

PatchLists == UNION {[1 .. n -> PatchBoxes] : n \in 0 .. 2}

\* the loop of lines 113-116 / 194-197 with the axes tested one by one
\* against any box
matches_axiswise(cell_box, bboxes) ==
  \A d \in Axes : \E k \in DOMAIN bboxes :
    /\ cell_box.lower[d] <= bboxes[k].upper[d]
    /\ bboxes[k].lower[d] <= cell_box.upper[d]

\* part_001 lines 113-116 and 194-197: true at the first box that intersects
matches(cell_box, bboxes) ==
  \E k \in DOMAIN bboxes : intersects(cell_box, bboxes[k])

\* cell->bounding_box() of an active cell
bounding_box(c) == cell_bbox[active_cell_index(c)]

\* part_001 lines 108-117
TriaIntersectionPredicate(c) == matches(bounding_box(c), patch_bboxes)

\* lines 148-158: resize, then the boxes of the locally owned cells
fill_bboxes(p) ==
  [i \in ActiveIndices |-> IF Owner(i) = p THEN fbox(cell_bbox[i]) ELSE ZeroBox]

\* lines 168-174: MPI_Allreduce with MPI_SUM over the packed boxes
sum_bboxes(i) ==
  [lower |-> [d \in Axes |->
                SumOver(Active, [q \in Active |-> active_cell_bboxes[q][i].lower[d]])],
   upper |-> [d \in Axes |->
                SumOver(Active, [q \in Active |-> active_cell_bboxes[q][i].upper[d]])]]

\* lines 199-214 looking at the children only, not at their descendants
RECURSIVE FEIntersectionPredicate_one_level(_, _)
FEIntersectionPredicate_one_level(p, c) ==
  IF is_active(c)
  THEN matches(active_cell_bboxes[p][active_cell_index(c)], patch_bboxes)
  ELSE \E n \in DOMAIN children(c) :
         /\ is_active(children(c)[n])
         /\ FEIntersectionPredicate_one_level(p, children(c)[n])

\* part_001 lines 183-222: operator().  The last branch (a cell that is not
\* active and has no children; Assert in a DEBUG build, false otherwise) is
\* never taken for a cell of a Triangulation.
RECURSIVE FEIntersectionPredicate(_, _)
FEIntersectionPredicate(p, c) ==
  IF is_active(c)
  THEN matches(active_cell_bboxes[p][active_cell_index(c)], patch_bboxes)
  ELSE IF has_children(c)
  THEN \E n \in DOMAIN children(c) : FEIntersectionPredicate(p, children(c)[n])
  ELSE FALSE

no_predicate_result == [predicate |-> "none", cell |-> 0, process |-> 0, value |-> << >>]

\* no predicate is in use
NoPredicates ==
  /\ patch_bboxes = << >>
  /\ cell_bbox = [i \in ActiveIndices |-> ZeroBox]
  /\ active_cell_bboxes = [p \in Procs |-> [i \in ActiveIndices |-> ZeroBox]]
  /\ fe_pc = [p \in Procs |-> "unconstructed"]
  /\ predicate_result = no_predicate_result

pipeline_vars ==
  << debug, n_procs, translation, overlap_tria, communicator,
     active_cell_index_partitioner, X_dof_handler, F_dof_handler, integrator,
     native_X, F_before, life_vars, mesh_vars, reg_vars, run_vars >>

\* lines 148-158 on process p
FE_fill(p) ==
  /\ p \in Active
  /\ fe_pc[p] = "unconstructed"
  /\ active_cell_bboxes' = [active_cell_bboxes EXCEPT ![p] = fill_bboxes(p)]
  /\ fe_pc' = [fe_pc EXCEPT ![p] = "filled"]
  /\ UNCHANGED << pipeline_vars, box_vars, patch_bboxes, cell_bbox, predicate_result >>

\* lines 162-175: the collective MPI_Allreduce, once every process has entered
FE_allreduce ==
  /\ \A p \in Active : fe_pc[p] = "filled"
  /\ active_cell_bboxes' =
       [p \in Procs |-> IF p \in Active
                        THEN [i \in ActiveIndices |-> sum_bboxes(i)]
                        ELSE active_cell_bboxes[p]]
  /\ fe_pc' = [p \in Procs |-> IF p \in Active THEN "reduced" ELSE fe_pc[p]]
  /\ UNCHANGED << pipeline_vars, box_vars, patch_bboxes, cell_bbox, predicate_result >>

\* lines 177-180: Assert(bbox.volume() > 0), active only in a DEBUG build
FE_volume_check(p) ==
  /\ p \in Active
  /\ fe_pc[p] = "reduced"
  /\ fe_pc' = [fe_pc EXCEPT ![p] =
                 IF debug /\ \E i \in ActiveIndices : ~(volume(active_cell_bboxes[p][i]) > 0)
                 THEN "aborted" ELSE "constructed"]
  /\ UNCHANGED << pipeline_vars, box_vars, patch_bboxes, cell_bbox,
                  active_cell_bboxes, predicate_result >>

\* a caller evaluates the finite-element predicate of process p on cell c
call_FEIntersectionPredicate(p, c) ==
  /\ p \in Active
  /\ fe_pc[p] = "constructed"
  /\ predicate_result' =
       [predicate |-> "FEIntersectionPredicate", cell |-> c, process |-> p,
        value |-> << FEIntersectionPredicate(p, c) >>]
  /\ UNCHANGED << pipeline_vars, box_vars, patch_bboxes, cell_bbox,
                  active_cell_bboxes, fe_pc >>

\* a caller evaluates the mesh predicate on active cell c
call_TriaIntersectionPredicate(c) ==
  /\ is_active(c)
  /\ \A p \in Active : fe_pc[p] = "unconstructed"
  /\ predicate_result' =
       [predicate |-> "TriaIntersectionPredicate", cell |-> c, process |-> 0,
        value |-> << TriaIntersectionPredicate(c) >>]
  /\ UNCHANGED << pipeline_vars, box_vars, patch_bboxes, cell_bbox,
                  active_cell_bboxes, fe_pc >>

\* ------------------------------------------------------------ overlap mesh
\* cell->level() and cell->index() of a cell of the native mesh
level_index(c) ==
  CASE c = 0 -> << 0, 0 >>
    [] c \in {1, 2} -> << 1, c - 1 >>
    [] OTHER -> << 2, c - 3 >>

\* overlap_tria.h line 112: cell_iterator(native_tria, pair.first, pair.second)
native_cell(pair) == CHOOSE c \in MeshCells : level_index(c) = pair

\* cell->barycenter() of native cell c after the mesh has moved `moves` times
barycenter(c, moves) == c + Cardinality(MeshCells) * moves

\* overlap_tria.h lines 132-141: the pair is appended, its position returned
add_native_cell(cells, c) ==
  [native_cells |-> Append(cells, level_index(c)),
   index |-> Len(Append(cells, level_index(c))) - 1]

\* the predicate also accepts the cells the process owns
BoxIntersectionPredicate_or_owned(p, bboxes, c) ==
  \/ matches(cell_bbox[active_cell_index(c)], bboxes)
  \/ Owner(active_cell_index(c)) = p

\* part_000 lines 99-100: the predicate that process p builds from
\* global_active_cell_bboxes, its patch boxes and the native mesh, on the
\* active native cell c
BoxIntersectionPredicate(p, bboxes, c) ==
  matches(cell_bbox[active_cell_index(c)], bboxes)

\* the orders in which the cells of S can be visited
Orders(S) ==
  {o \in [1 .. Cardinality(S) -> S] : \A x \in S : \E k \in DOMAIN o : o[k] = x}

\* OverlapTriangulation::reinit: one overlap cell per cell of `order`, a copy
\* of the native cell that carries the index add_native_cell returned
RECURSIVE reinit_overlapping_tria(_, _, _)
reinit_overlapping_tria(order, cells, built) ==
  IF order = << >> THEN [native_cells |-> cells, overlap_cells |-> built]
  ELSE LET added == add_native_cell(cells, Head(order)) IN
         reinit_overlapping_tria(
           Tail(order), added.native_cells,
           Append(built, [user_index |-> added.index,
                          barycenter |-> barycenter(Head(order), native_moves)]))

\* the overlap cells left in the order of their construction
construction_order(cells) == [j \in 1 .. Len(cells) |-> j]

\* OverlapTriangulation::reinit: the overlap cells (positions in `cells`)
\* sorted by the active cell index of the native cell recorded for each
sort_by_active_native_index(cells) ==
  LET index(k) == active_cell_index(native_cell(cells[k])) IN
    [j \in 1 .. Len(cells) |->
       CHOOSE k \in 1 .. Len(cells) :
         Cardinality({m \in 1 .. Len(cells) : index(m) < index(k)}) = j - 1]

\* overlap_tria.h lines 120-128
get_cell_iterators_in_active_native_order(p) ==
  cell_iterators_in_active_native_order[p]

no_native_cell_result ==
  [process |-> 0, cell |-> 0, status |-> "none", value |-> << >>]

\* overlap_tria.h lines 105-116: the ways a call on the k-th overlap cell of
\* process p can end.  Both checks are Asserts.  Without DEBUG an index past
\* the end of native_cells is read all the same (undefined behaviour: any
\* pair, or a crash), and a native cell elsewhere is returned as it is.
get_native_cell(p, k) ==
  LET cell == overlap_cells[p][k]
      in_range == cell.user_index < Len(native_cells[p])
      pair == native_cells[p][cell.user_index + 1]
      returned(c) == [process |-> p, cell |-> k, status |-> "returned",
                      value |-> level_index(c)]
      ended(st) == [process |-> p, cell |-> k, status |-> st, value |-> << >>]
  IN  IF ~in_range
      THEN IF debug THEN {ended("rejected")}
           ELSE {ended("crashed")} \cup {returned(c) : c \in MeshCells}
      ELSE IF debug /\ barycenter(native_cell(pair), native_moves)
                         # cell.barycenter
      THEN {ended("rejected")}
      ELSE {returned(native_cell(pair))}

\* part_000 lines 117-123
locally_owned_active_cell_indices(p) == {i \in ActiveIndices : Owner(i) = p}

\* part_000 lines 126-128, right after the overlap mesh was built
ghost_active_cell_indices(cells, built) ==
  {active_cell_index(native_cell(cells[built[k].user_index + 1])) :
     k \in DOMAIN built}

\* no overlap mesh has been built
NoOverlapMesh ==
  /\ region_bboxes = [p \in Procs |-> << >>]
  /\ native_cells = [p \in Procs |-> << >>]
  /\ overlap_cells = [p \in Procs |-> << >>]
  /\ native_moves = 0
  /\ native_cell_result = no_native_cell_result
  /\ cell_iterators_in_active_native_order = [p \in Procs |-> << >>]

\* the region boxes a process can be given in the overlap runs
RegionLists ==
  UNION {[1 .. n -> {Box(0, 1, 0, 1), Box(3, 3, 3, 3)}] : n \in 0 .. 2}

overlap_frame ==
  << debug, n_procs, translation, overlap_tria, communicator, X_dof_handler,
     F_dof_handler, integrator, native_X, F_before, native_comm, n_duplicates,
     freed, outcome, box_vars, pred_vars, reg_vars, run_vars >>

\* part_000 lines 92-132 on process p: the overlap mesh of the cells the
\* predicate accepts, built in some order, and the index sets of the
\* active cell index partitioner
reinit_overlap(p, bboxes) ==
  /\ p \in Active
  /\ pc[p] = "idle"
  /\ n_reinits[p] = 0
  /\ n_reinits' = [n_reinits EXCEPT ![p] = 1]
  /\ region_bboxes' = [region_bboxes EXCEPT ![p] = bboxes]
  /\ \E order \in Orders({c \in ActiveCells :
                            BoxIntersectionPredicate(p, bboxes, c)}) :
       LET tria == reinit_overlapping_tria(order, << >>, << >>) IN
         /\ native_cells' = [native_cells EXCEPT ![p] = tria.native_cells]
         /\ overlap_cells' = [overlap_cells EXCEPT ![p] = tria.overlap_cells]
         /\ cell_iterators_in_active_native_order' =
              [cell_iterators_in_active_native_order EXCEPT ![p] =
                 sort_by_active_native_index(tria.native_cells)]
         /\ active_cell_index_partitioner' =
              [active_cell_index_partitioner EXCEPT ![p] =
                 [locally_owned |-> locally_owned_active_cell_indices(p),
                  ghost |-> ghost_active_cell_indices(tria.native_cells,
                                                      tria.overlap_cells),
                  communicator |-> communicator[p]]]
  /\ UNCHANGED << overlap_frame, native_moves, native_cell_result >>

\* the caller moves the vertices of the native mesh and does not call reinit
native_mesh_moved ==
  /\ n_procs = 1
  /\ native_moves < MaxMoves
  /\ native_moves' = native_moves + 1
  /\ UNCHANGED << overlap_frame, n_reinits, active_cell_index_partitioner,
                  cell_iterators_in_active_native_order, region_bboxes, native_cells, overlap_cells, native_cell_result >>

\* the caller overwrites the user index of the k-th overlap cell
\* (TriaAccessor::set_user_index) with the first index past native_cells
set_user_index(p, k) ==
  /\ n_procs = 1
  /\ p \in Active
  /\ k \in DOMAIN overlap_cells[p]
  /\ overlap_cells' =
       [overlap_cells EXCEPT ![p][k].user_index = Len(native_cells[p])]
  /\ UNCHANGED << overlap_frame, n_reinits, active_cell_index_partitioner,
                  cell_iterators_in_active_native_order, region_bboxes, native_cells, native_moves, native_cell_result >>

\* overlap_tria.h lines 105-116 called on the k-th overlap cell of process p
call_get_native_cell(p, k) ==
  /\ p \in Active
  /\ k \in DOMAIN overlap_cells[p]
  /\ native_cell_result' \in get_native_cell(p, k)
  /\ UNCHANGED << overlap_frame, n_reinits, active_cell_index_partitioner,
                  cell_iterators_in_active_native_order, region_bboxes, native_cells, overlap_cells, native_moves >>

\* ------------------------------------------------------------ start inputs
\* lines 252 and 257: MPI_Comm_compare of the pipeline's communicator (a
\* duplicate of the native mesh's) with the communicator of a vector
MPI_Comm_compare(p, vec_comm) ==
  IF vec_comm = native_comm[p] THEN "MPI_CONGRUENT" ELSE "MPI_UNEQUAL"

\* lines 246-262: the three conditions start asserts on its inputs
start_asserts(p, quad, X_comm, F_comm) ==
  /\ Len(quad) = n_locally_owned_active_cells(p)
  /\ MPI_Comm_compare(p, X_comm) = "MPI_CONGRUENT"
  /\ MPI_Comm_compare(p, F_comm) = "MPI_CONGRUENT"

\* the quad_indices a caller can pass: the right ones, one entry dropped,
\* one entry added
QuadIndices(p) ==
  {quad_indices(p), quad_indices(p) \o << 1 >>}
    \cup {SubSeq(quad_indices(p), 1, Len(quad_indices(p)) - 1) :
            x \in {k \in {1} : quad_indices(p) # << >>}}

\* how a call of start ended, with the inputs it was given
start_outcome(h, threw, quad, X_comm, F_comm) ==
  [no_outcome EXCEPT !.call = "compute_projection_rhs_start",
                     !.handler = h, !.threw = threw,
                     !.value = << Len(quad), X_comm, F_comm >>]

\* the lookup of F_dof_handler made only after the X scatter has started
start_rejected_after_scatter(p) ==
  IF is_registered(p, X_dof_handler)
  THEN global_to_overlap_start(net, p, get_scatter(p, X_dof_handler),
                               native_X, X_channel)
  ELSE net

\* lines 278-289: both lookups come before line 302, so the messages in
\* flight are those of before the call when one of them throws
start_rejected(p) == net

\* lines 234-314 for any inputs.  The input checks are Asserts (lines 246,
\* 254, 259, the last two inside #ifdef DEBUG): without DEBUG the call goes
\* on.  The lookups of lines 282 and 289 throw in every build.  Without
\* DEBUG, quad_indices one entry short is read past its end at line 309
\* (undefined behaviour), after the X scatter has started.
call_compute_projection_rhs_start(p, quad, X_comm, F_comm) ==
  /\ p \in Active
  /\ pc[p] = "idle"
  /\ Len(trans[p]) < MaxTrans
  /\ IF debug /\ ~start_asserts(p, quad, X_comm, F_comm)
     THEN /\ pc' = [pc EXCEPT ![p] = "aborted"]
          /\ outcome' = [outcome EXCEPT ![p] =
                           start_outcome("none", FALSE, quad, X_comm, F_comm)]
          /\ UNCHANGED << trans, net >>
     ELSE IF ~is_registered(p, X_dof_handler) \/ ~is_registered(p, F_dof_handler)
     THEN /\ outcome' = [outcome EXCEPT ![p] =
                           start_outcome(IF is_registered(p, X_dof_handler)
                                         THEN F_dof_handler ELSE X_dof_handler,
                                         TRUE, quad, X_comm, F_comm)]
          /\ net' = start_rejected(p)
          /\ UNCHANGED << trans, pc >>
     ELSE LET t == [new_transaction(p) EXCEPT !.native_quad_indices = quad]
              n1 == global_to_overlap_start(net, p,
                                            get_scatter(p, X_dof_handler),
                                            native_X, X_channel)
          IN /\ outcome' = [outcome EXCEPT ![p] =
                              start_outcome("none", FALSE, quad, X_comm, F_comm)]
             /\ trans' = [trans EXCEPT ![p] = Append(@, t)]
             /\ IF Len(quad) < n_locally_owned_active_cells(p)
                THEN /\ net' = n1
                     /\ pc' = [pc EXCEPT ![p] = "undefined"]
                ELSE /\ net' = export_to_ghosted_array_start(
                                 n1, p, active_cell_index_partitioner[p],
                                 quad_channel, quad)
                     /\ UNCHANGED pc
  /\ UNCHANGED << debug, n_procs, translation, overlap_tria, communicator,
                  active_cell_index_partitioner, X_dof_handler, F_dof_handler,
                  integrator, native_X, F_before, native_comm, n_duplicates,
                  freed, n_reinits, geo_vars, reg_vars, F_rhs >>

\* ------------------------------------------------------------ batches
\* the handlers of the n-th Transaction of a batch: the first scatters X on
\* hA and F on hB, the later ones on the caller's X_dof_handler and
\* F_dof_handler
batch_handlers(n) ==
  IF n = 1 THEN [X |-> "hA", F |-> "hB"]
  ELSE [X |-> X_dof_handler, F |-> F_dof_handler]

\* the caller's vector X of the n-th Transaction
batch_X(n) == [i \in Dofs |-> native_X[i] + 10 * (n - 1)]

\* the caller's quad_indices of the n-th Transaction
batch_quad_indices(p, n) ==
  [j \in DOMAIN quad_indices(p) |-> quad_indices(p)[j] + 10 * (n - 1)]

\* lines 265-294 for the n-th Transaction of a batch, with the caller's
\* vectors the Transaction points to (lines 279 and 287)
batch_transaction(p, n) ==
  [native_quad_indices |-> batch_quad_indices(p, n),
   overlap_quad_indices |-> Zeros(Cardinality(overlap_tria[p])),
   native_X_dof_handler |-> batch_handlers(n).X,
   native_X |-> batch_X(n),
   overlap_X_vec |-> Zeros(get_overlap_dof_handler(p, batch_handlers(n).X).n_dofs),
   native_F_dof_handler |-> batch_handlers(n).F,
   native_F_rhs |-> F_before,
   overlap_F_rhs |-> Zeros(get_overlap_dof_handler(p, batch_handlers(n).F).n_dofs),
   next_state |-> start_next_state,
   operation |-> "Interpolation",
   requests |-> {[op |-> "global_to_overlap", channel |-> X_channel],
                 [op |-> "export_to_ghosted_array", channel |-> quad_channel]}]

\* the design document, section 5: a start on a Scatter whose earlier
\* transfer in the same direction has not been drained is undefined
scatter_in_use(p, h) ==
  \E m \in DOMAIN trans[p] :
    /\ trans[p][m].native_X_dof_handler = h
    /\ \E r \in trans[p][m].requests : r.op = "global_to_overlap"

\* lines 234-314 called for the next Transaction of a batch, the earlier ones
\* started and not drained
batch_start(p) ==
  /\ p \in Active
  /\ pc[p] = "idle"
  /\ Len(trans[p]) < MaxBatch
  /\ \A m \in DOMAIN trans[p] : trans[p][m].next_state = "Intermediate"
  /\ LET n == Len(trans[p]) + 1
         t == batch_transaction(p, n)
         n1 == global_to_overlap_start(net, p, get_scatter(p, t.native_X_dof_handler),
                                       t.native_X, X_channel)
     IN /\ trans' = [trans EXCEPT ![p] = Append(@, t)]
        /\ IF scatter_in_use(p, t.native_X_dof_handler)
           THEN /\ pc' = [pc EXCEPT ![p] = "undefined"]
                /\ UNCHANGED net
           ELSE /\ net' = export_to_ghosted_array_start(
                            n1, p, active_cell_index_partitioner[p],
                            quad_channel, t.native_quad_indices)
                /\ UNCHANGED pc
  /\ UNCHANGED << cfg_vars, reg_vars, F_rhs >>

\* lines 318-356 for the n-th Transaction of the batch, the earlier ones
\* past their intermediate call; the two waits of lines 331-338 are over
\* when the call is taken
batch_intermediate(p, n) ==
  /\ p \in Active
  /\ pc[p] = "idle"
  /\ Len(trans[p]) = MaxBatch
  /\ n \in DOMAIN trans[p]
  /\ intermediate_asserts(trans[p][n])
  /\ \A m \in 1 .. (n - 1) : trans[p][m].next_state # "Intermediate"
  /\ LET t == trans[p][n]
         X_scatter == get_scatter(p, t.native_X_dof_handler)
         F_scatter == get_scatter(p, t.native_F_dof_handler)
         part == active_cell_index_partitioner[p]
         X_from == global_to_overlap_sources(p, X_scatter)
         quad_from == export_to_ghosted_array_sources(p, part)
     IN /\ Arrived(p, X_from, X_channel)
        /\ Arrived(p, quad_from, quad_channel)
        /\ LET X_vec == global_to_overlap_finish(p, X_scatter, t.native_X, X_channel)
               quad == export_to_ghosted_array_finish(p, part, quad_channel,
                                                      t.native_quad_indices)
               t1 == [t EXCEPT !.overlap_X_vec = X_vec,
                               !.overlap_quad_indices = quad]
               f == integrate(t1)
               n1 == Receive(Receive(net, p, X_from, X_channel),
                             p, quad_from, quad_channel)
           IN /\ net' = overlap_to_global_start(n1, p, F_scatter, f, F_channel)
              /\ trans' = [trans EXCEPT ![p][n] =
                   [t1 EXCEPT !.overlap_F_rhs = f,
                              !.requests = {[op |-> "overlap_to_global",
                                             channel |-> F_channel]},
                              !.next_state = intermediate_next_state]]
  /\ UNCHANGED << cfg_vars, reg_vars, F_rhs, pc >>

\* lines 360-377 for the n-th Transaction of the batch, the earlier ones Done
batch_finish(p, n) ==
  /\ p \in Active
  /\ pc[p] = "idle"
  /\ n \in DOMAIN trans[p]
  /\ finish_asserts(trans[p][n])
  /\ \A m \in 1 .. (n - 1) : trans[p][m].next_state = "Done"
  /\ LET t == trans[p][n]
         sc == get_scatter(p, t.native_F_dof_handler)
         from == overlap_to_global_sources(p)
     IN /\ Arrived(p, from, F_channel)
        /\ net' = Receive(net, p, from, F_channel)
        /\ trans' = [trans EXCEPT ![p][n] =
             [t EXCEPT !.native_F_rhs =
                          overlap_to_global_finish(p, sc, t.overlap_F_rhs,
                                                   F_operation, F_channel,
                                                   t.native_F_rhs),
                       !.requests = {},
                       !.next_state = finish_next_state]]
  /\ UNCHANGED << cfg_vars, reg_vars, F_rhs, pc >>

\* ------------------------------------------------------------ specifications
\* the pipeline after its constructor (which runs reinit), for every build,
\* communicator size and overlap partitioning within the bounds
Constructed ==
  /\ debug \in BOOLEAN
  /\ n_procs \in Procs
  /\ translation \in {f \in [Procs -> Tables] : \A p \in Procs : p > n_procs => f[p] = << >>}
  /\ overlap_tria = [p \in Procs |-> Range(translation[p])]
  /\ communicator = [p \in Procs |-> 1]
  /\ active_cell_index_partitioner =
       [p \in Procs |-> reinit_partitioner(p, overlap_tria[p], communicator[p])]
  /\ trans = [p \in Procs |-> << >>]
  /\ pc = [p \in Procs |-> "idle"]
  /\ net = [k \in Procs \X Procs \X Channels |-> << >>]
  /\ native_comm = [p \in Procs |-> "world"]
  /\ n_duplicates = [p \in Procs |-> 1]
  /\ freed = [p \in Procs |-> {}]
  /\ n_reinits = [p \in Procs |-> 0]
  /\ outcome = [p \in Procs |-> no_outcome]
  /\ NoOverlapMesh

\* the caller's vectors: X holds i (or i + 1) at index i, F_rhs is zeroed (or not)
CallerInputs ==
  /\ \E d \in {0, 1} :
       /\ native_X = [i \in Dofs |-> i + d]
       /\ F_before = [i \in Dofs |-> 10 * d * (i + 1)]
  /\ F_rhs = F_before

Registered(hs) ==
  /\ native_dof_handlers = [p \in Procs |-> IF p \in Active THEN hs ELSE << >>]
  /\ overlap_dof_handlers =
       [p \in Procs |-> [j \in DOMAIN native_dof_handlers[p] |->
                           new_overlap_dof_handler(p, native_dof_handlers[p][j])]]
  /\ scatters =
       [p \in Procs |-> [j \in DOMAIN native_dof_handlers[p] |->
                           new_scatter(p, native_dof_handlers[p][j])]]
  /\ n_add_calls = [p \in Procs |-> Len(native_dof_handlers[p])]

\* registration runs: the constructed pipeline, nothing registered yet
InitRegistry ==
  /\ Constructed
  /\ NoBoxes
  /\ NoPredicates
  /\ debug = TRUE
  /\ X_dof_handler = "hA"
  /\ F_dof_handler = "hB"
  /\ integrator = "none"
  /\ native_X = [i \in Dofs |-> i]
  /\ F_before = [i \in Dofs |-> 0]
  /\ F_rhs = F_before
  /\ Registered(<< >>)

NextRegistry ==
  \E p \in Procs : \E h \in Handlers \cup ForeignHandlers :
    \/ add_dof_handler(p, h)
    \/ add_dof_handler_throws(p, h)

SpecRegistry == InitRegistry /\ [][NextRegistry]_vars

\* ------------------------------------------------------------ lifecycle
\* line 34: communicator(MPI_COMM_NULL)
MPI_COMM_NULL == 0

\* lines 58-61 with the duplication made on every reinit
must_duplicate_always(p, n_comm) == TRUE

\* lines 58-59: the condition under which reinit duplicates a communicator
must_duplicate(p, n_comm) ==
  communicator[p] = MPI_COMM_NULL \/ native_comm[p] # n_comm

\* lines 58-61: the pipeline's communicator after reinit; a duplicate is a
\* handle that was never handed out before
reinit_communicator(p, n_comm) ==
  IF must_duplicate(p, n_comm) THEN n_duplicates[p] + 1 ELSE communicator[p]

\* lines 46-140: reinit on process p with a native mesh on communicator n_comm
\* whose overlap dofs translate by `table`.  The three registry vectors are
\* not touched anywhere in reinit.
reinit_body(p, n_comm, table) ==
  /\ communicator' = [communicator EXCEPT ![p] = reinit_communicator(p, n_comm)]
  /\ n_duplicates' = [n_duplicates EXCEPT ![p] =
                        IF must_duplicate(p, n_comm) THEN @ + 1 ELSE @]
  /\ native_comm' = [native_comm EXCEPT ![p] = n_comm]
  /\ translation' = [translation EXCEPT ![p] = table]
  /\ overlap_tria' = [overlap_tria EXCEPT ![p] = Range(table)]
  /\ active_cell_index_partitioner' =
       [active_cell_index_partitioner EXCEPT ![p] =
          reinit_partitioner(p, Range(table), reinit_communicator(p, n_comm))]
  /\ outcome' = [outcome EXCEPT ![p] = [no_outcome EXCEPT !.call = "reinit"]]
  /\ UNCHANGED << debug, n_procs, X_dof_handler, F_dof_handler, integrator,
                  native_X, F_before, freed, geo_vars, reg_vars,
                  run_vars_but_pc >>

\* lines 27-42: the constructor sets native_tria and calls reinit
InteractionBase(p, n_comm, table) ==
  /\ p \in Active
  /\ pc[p] = "unconstructed"
  /\ communicator[p] = MPI_COMM_NULL
  /\ native_comm[p] = n_comm
  /\ reinit_body(p, n_comm, table)
  /\ pc' = [pc EXCEPT ![p] = "idle"]
  /\ UNCHANGED n_reinits

reinit(p, n_comm, table) ==
  /\ p \in Active
  /\ pc[p] = "idle"
  /\ trans[p] = << >>
  /\ n_reinits[p] < MaxReinits
  /\ reinit_body(p, n_comm, table)
  /\ n_reinits' = [n_reinits EXCEPT ![p] = @ + 1]
  /\ UNCHANGED pc

\* lines 156-164 without the AssertThrow: end() - begin() indexes the vector
unchecked_lookup(p, h, vec) ==
  IF find(p, h) = 0
  THEN [threw |-> FALSE,
        value |-> IF vec = << >> THEN << >> ELSE << vec[Len(vec)] >>]
  ELSE [threw |-> FALSE, value |-> << vec[find(p, h)] >>]

\* lines 156-164, 172-180, 188-196: std::find, AssertThrow, the entry found
checked_lookup(p, h, vec) ==
  IF find(p, h) = 0
  THEN [threw |-> TRUE, value |-> << >>]
  ELSE [threw |-> FALSE, value |-> << vec[find(p, h)] >>]

\* a lookup called by the user on a constructed pipeline, before it runs
\* Transactions
lookup_call(p, h, name, vec) ==
  /\ p \in Active
  /\ pc[p] = "idle"
  /\ trans[p] = << >>
  /\ outcome' = [outcome EXCEPT ![p] =
                   [no_outcome EXCEPT !.call = name, !.handler = h,
                                      !.threw = checked_lookup(p, h, vec).threw,
                                      !.value = checked_lookup(p, h, vec).value]]
  /\ UNCHANGED << debug, n_procs, translation, overlap_tria, communicator,
                  active_cell_index_partitioner, X_dof_handler, F_dof_handler,
                  integrator, native_X, F_before, native_comm, n_duplicates,
                  freed, n_reinits, geo_vars, reg_vars, run_vars >>

\* lines 153-165
call_get_overlap_dof_handler(p, h) ==
  lookup_call(p, h, "get_overlap_dof_handler", overlap_dof_handlers[p])

\* lines 169-181
call_get_overlap_dof_handler_const(p, h) ==
  lookup_call(p, h, "get_overlap_dof_handler const", overlap_dof_handlers[p])

\* lines 185-197
call_get_scatter(p, h) == lookup_call(p, h, "get_scatter", scatters[p])

\* line 148: AssertNothrow never throws, and prints only in a DEBUG build
destructor_outcome(ierr) ==
  [no_outcome EXCEPT !.call = "~InteractionBase", !.ierr = ierr,
                     !.reported = (ierr # 0 /\ debug)]

\* lines 144-149: the destructor; MPI_Comm_free returns ierr, and on success
\* releases the handle and sets it to MPI_COMM_NULL
destructor(p, ierr) ==
  /\ p \in Active
  /\ pc[p] = "idle"
  /\ \A n \in DOMAIN trans[p] : trans[p][n].next_state = "Done"
  /\ pc' = [pc EXCEPT ![p] = "destroyed"]
  /\ IF ierr = 0
     THEN /\ freed' = [freed EXCEPT ![p] = @ \cup {communicator[p]}]
          /\ communicator' = [communicator EXCEPT ![p] = MPI_COMM_NULL]
     ELSE UNCHANGED << freed, communicator >>
  /\ outcome' = [outcome EXCEPT ![p] = destructor_outcome(ierr)]
  /\ UNCHANGED << debug, n_procs, translation, overlap_tria,
                  active_cell_index_partitioner, X_dof_handler, F_dof_handler,
                  integrator, native_X, F_before, native_comm, n_duplicates,
                  n_reinits, geo_vars, reg_vars, run_vars_but_pc >>

\* the translation tables of the overlap meshes the lifecycle runs build
ReinitTables == {<< >>, << 0 >>, << 1, 0 >>}

\* lifecycle runs: one process, the pipeline not yet constructed
InitLifecycle ==
  /\ NoBoxes
  /\ NoPredicates
  /\ NoOverlapMesh
  /\ debug \in BOOLEAN
  /\ n_procs = 1
  /\ translation = [p \in Procs |-> << >>]
  /\ overlap_tria = [p \in Procs |-> {}]
  /\ communicator = [p \in Procs |-> MPI_COMM_NULL]
  /\ active_cell_index_partitioner =
       [p \in Procs |-> reinit_partitioner(p, {}, MPI_COMM_NULL)]
  /\ trans = [p \in Procs |-> << >>]
  /\ pc = [p \in Procs |-> IF p \in Active THEN "unconstructed" ELSE "idle"]
  /\ net = [k \in Procs \X Procs \X Channels |-> << >>]
  /\ native_comm \in {f \in [Procs -> Comms] :
                        \A p \in Procs : p > n_procs => f[p] = "world"}
  /\ n_duplicates = [p \in Procs |-> 0]
  /\ freed = [p \in Procs |-> {}]
  /\ n_reinits = [p \in Procs |-> 0]
  /\ outcome = [p \in Procs |-> no_outcome]
  /\ X_dof_handler = "hA"
  /\ F_dof_handler = "hB"
  /\ integrator = "none"
  /\ native_X = [i \in Dofs |-> i]
  /\ F_before = [i \in Dofs |-> 0]
  /\ F_rhs = F_before
  /\ native_dof_handlers = [p \in Procs |-> << >>]
  /\ overlap_dof_handlers = [p \in Procs |-> << >>]
  /\ scatters = [p \in Procs |-> << >>]
  /\ n_add_calls = [p \in Procs |-> 0]

\* transfer runs: hA and hB have been registered on every process
Init ==
  /\ Constructed
  /\ NoBoxes
  /\ NoPredicates
  /\ X_dof_handler \in Handlers
  /\ F_dof_handler = "hB"
  /\ integrator \in {"none", "unit", "identity"}
  /\ CallerInputs
  /\ Registered(<< "hA", "hB" >>)

Next ==
  \E p \in Procs :
    \/ compute_projection_rhs_start(p)
    \/ compute_projection_rhs_intermediate(p)
    \/ intermediate_global_to_overlap_finish(p)
    \/ intermediate_export_to_ghosted_array_finish(p)
    \/ intermediate_overlap_to_global_start(p)
    \/ compute_projection_rhs_finish(p)
    \/ finish_overlap_to_global_finish(p)

Spec == Init /\ [][Next]_vars

\* the caller of the design document: on every process start, then
\* intermediate, then finish of the same Transaction
call_in_order(p) ==
  \/ compute_projection_rhs_start(p)
  \/ /\ trans[p] # << >>
     /\ intermediate_asserts(current(p))
     /\ compute_projection_rhs_intermediate(p)
  \/ /\ trans[p] # << >>
     /\ finish_asserts(current(p))
     /\ compute_projection_rhs_finish(p)

\* a wait inside intermediate or finish ends, or the body goes on
return_from_wait(p) ==
  \/ intermediate_global_to_overlap_finish(p)
  \/ intermediate_export_to_ghosted_array_finish(p)
  \/ intermediate_overlap_to_global_start(p)
  \/ finish_overlap_to_global_finish(p)

InitLive ==
  /\ Init
  /\ debug
  /\ X_dof_handler = "hA"
  /\ integrator = "identity"
  /\ native_X = [i \in Dofs |-> i + 1]

NextLive == \E p \in Procs : call_in_order(p) \/ return_from_wait(p)

\* every process goes on calling, and a wait whose messages have arrived ends
Fairness ==
  \A p \in Procs : WF_vars(call_in_order(p)) /\ WF_vars(return_from_wait(p))

SpecLive == InitLive /\ [][NextLive]_vars /\ Fairness

\* an idle pipeline on one process, for the runs that only evaluate functions
IdlePipeline ==
  /\ Constructed
  /\ debug \in BOOLEAN
  /\ translation = [p \in Procs |-> << >>]
  /\ X_dof_handler = "hA"
  /\ F_dof_handler = "hB"
  /\ integrator = "none"
  /\ native_X = [i \in Dofs |-> i]
  /\ F_before = [i \in Dofs |-> 0]
  /\ F_rhs = F_before
  /\ Registered(<< >>)

\* box runs: intersects is evaluated for every pair of boxes
InitIntersects ==
  /\ IdlePipeline
  /\ NoPredicates
  /\ debug = TRUE
  /\ n_procs = 1
  /\ box_a \in Boxes
  /\ box_b \in Boxes
  /\ intersects_result = << >>

NextIntersects == call_intersects

SpecIntersects == InitIntersects /\ [][NextIntersects]_vars

\* predicate runs: every choice of cell boxes and region boxes, in both
\* builds, on one or two processes
InitPredicate ==
  /\ IdlePipeline
  /\ NoBoxes
  /\ patch_bboxes \in PatchLists
  /\ cell_bbox \in [ActiveIndices -> CellBoxes]
  /\ active_cell_bboxes = [p \in Procs |-> [i \in ActiveIndices |-> ZeroBox]]
  /\ fe_pc = [p \in Procs |-> "unconstructed"]
  /\ predicate_result = no_predicate_result

NextPredicate ==
  \/ \E p \in Procs : FE_fill(p)
  \/ FE_allreduce
  \/ \E p \in Procs : FE_volume_check(p)
  \/ \E p \in Procs : \E c \in MeshCells : call_FEIntersectionPredicate(p, c)
  \/ \E c \in MeshCells : call_TriaIntersectionPredicate(c)

SpecPredicate == InitPredicate /\ [][NextPredicate]_vars

\* lifecycle runs: construction, reinit, registration, lookups, Transactions
\* and destruction of one pipeline
\* overlap runs: every choice of cell boxes, in both builds, on one or two
\* processes; the region boxes are chosen by each reinit
GlobalCellBoxes == {Box(0, 1, 0, 1), Box(2, 3, 2, 3)}

InitOverlap ==
  /\ IdlePipeline
  /\ NoBoxes
  /\ patch_bboxes = << >>
  /\ cell_bbox \in [ActiveIndices -> GlobalCellBoxes]
  /\ active_cell_bboxes = [p \in Procs |-> [i \in ActiveIndices |-> ZeroBox]]
  /\ fe_pc = [p \in Procs |-> "unconstructed"]
  /\ predicate_result = no_predicate_result

NextOverlap ==
  \/ \E p \in Procs : \E bboxes \in RegionLists : reinit_overlap(p, bboxes)
  \/ native_mesh_moved
  \/ \E p \in Procs : \E k \in 1 .. Cardinality(ActiveCells) : set_user_index(p, k)
  \/ \E p \in Procs : \E k \in 1 .. Cardinality(ActiveCells) :
       call_get_native_cell(p, k)

SpecOverlap == InitOverlap /\ [][NextOverlap]_vars

\* batch runs: both handlers registered, the later Transactions of the batch
\* on the same handlers as the first or on the two exchanged
InitBatch ==
  /\ Constructed
  /\ NoBoxes
  /\ NoPredicates
  /\ \E h \in Handlers :
       /\ X_dof_handler = h
       /\ F_dof_handler = CHOOSE g \in Handlers : g # h
  /\ integrator = "identity"
  /\ native_X = [i \in Dofs |-> i + 1]
  /\ F_before = [i \in Dofs |-> 0]
  /\ F_rhs = F_before
  /\ Registered(<< "hA", "hB" >>)

NextBatch ==
  \E p \in Procs :
    \/ batch_start(p)
    \/ \E n \in 1 .. MaxBatch : batch_intermediate(p, n)
    \/ \E n \in 1 .. MaxBatch : batch_finish(p, n)

SpecBatch == InitBatch /\ [][NextBatch]_vars

\* start runs: every registry of at most hA and hB, every input of start
InitStart ==
  /\ Constructed
  /\ NoBoxes
  /\ NoPredicates
  /\ X_dof_handler = "hA"
  /\ F_dof_handler = "hB"
  /\ integrator = "none"
  /\ native_X = [i \in Dofs |-> i + 1]
  /\ F_before = [i \in Dofs |-> 0]
  /\ F_rhs = F_before
  /\ \E hs \in {<< >>, << "hA" >>, << "hB" >>, << "hA", "hB" >>} : Registered(hs)

NextStart ==
  \E p \in Procs : \E quad \in QuadIndices(p) :
    \E X_comm \in Comms : \E F_comm \in Comms :
      call_compute_projection_rhs_start(p, quad, X_comm, F_comm)

SpecStart == InitStart /\ [][NextStart]_vars

NextLifecycle ==
  \/ \E p \in Procs :
       \/ \E c \in Comms : \E t \in ReinitTables : InteractionBase(p, c, t)
       \/ \E c \in Comms : \E t \in ReinitTables : reinit(p, c, t)
       \/ \E h \in Handlers : add_dof_handler(p, h)
       \/ \E h \in Handlers : call_get_overlap_dof_handler(p, h)
       \/ \E h \in Handlers : call_get_overlap_dof_handler_const(p, h)
       \/ \E h \in Handlers : call_get_scatter(p, h)
       \/ \E ierr \in {0, 1} : destructor(p, ierr)
  \/ Next

SpecLifecycle == InitLifecycle /\ [][NextLifecycle]_vars

\* ------------------------------------------------------------ claims
\* one step of process p moves next_state of its Transactions only from
\* Intermediate to Finish (inside intermediate) or from Finish to Done (inside
\* finish), and a new Transaction starts as Intermediate / Interpolation
C1_Move(p, a, b) ==
  \/ a = b
  \/ a = "Intermediate" /\ b = "Finish" /\ pc[p] = "overlap_to_global_start"
  \/ a = "Finish" /\ b = "Done" /\ pc[p] = "overlap_to_global_finish"

C1_Step(p) ==
  /\ DOMAIN trans[p] \subseteq DOMAIN trans'[p]
  /\ \A n \in DOMAIN trans'[p] :
       IF n \in DOMAIN trans[p]
       THEN C1_Move(p, trans[p][n].next_state, trans'[p][n].next_state)
       ELSE /\ trans'[p][n].next_state = "Intermediate"
            /\ trans'[p][n].operation = "Interpolation"

\* C1: for every Transaction next_state only ever moves Intermediate ->
\* Finish -> Done: start returns it Intermediate / Interpolation, intermediate
\* moves Intermediate to Finish, finish moves Finish to Done, and no operation
\* moves it backwards, skips a state or leaves Done.
C1_StateMachine == [][\A p \in Procs : C1_Step(p)]_vars

\* what the code does keep: the state machine in a DEBUG build, and without
\* DEBUG as long as no phase is called on a Transaction in the wrong state
C1_StateMachineChecked ==
  [][\A p \in Procs : (debug \/ pc'[p] # "undefined") => C1_Step(p)]_vars

\* without DEBUG, finish was called before intermediate and the Transaction
\* went from Intermediate to Done with both of its first transfers unfinished
C1_SkippedFinish ==
  /\ ~debug
  /\ \E p \in Active :
       /\ trans[p] # << >>
       /\ pc[p] = "undefined"
       /\ current(p).next_state = "Done"
       /\ Started(current(p), "global_to_overlap")
       /\ Started(current(p), "export_to_ghosted_array")

\* a call of intermediate or finish on a Transaction in the wrong state is
\* rejected: the process aborts and nothing else changes
C2_Rejected(p) ==
  /\ (compute_projection_rhs_intermediate(p)
      /\ current(p).next_state # "Intermediate")
       => (pc'[p] = "aborted" /\ UNCHANGED << trans, net, F_rhs >>)
  /\ (compute_projection_rhs_finish(p) /\ current(p).next_state # "Finish")
       => (pc'[p] = "aborted" /\ UNCHANGED << trans, net, F_rhs >>)

\* C2: intermediate on a Transaction whose next_state is not Intermediate and
\* finish on a Transaction whose next_state is not Finish fail fatally, start
\* or finish no transfer and leave next_state unchanged.
C2_MisuseRejected == [][\A p \in Procs : C2_Rejected(p)]_vars

\* what the code does keep: the rejection in a build that defines DEBUG
C2_MisuseRejectedChecked == [][debug => \A p \in Procs : C2_Rejected(p)]_vars

\* without DEBUG, a second intermediate call on a Transaction in state Finish
\* was not rejected
C2_SecondIntermediateAccepted ==
  /\ ~debug
  /\ \E p \in Active :
       /\ trans[p] # << >>
       /\ pc[p] = "undefined"
       /\ current(p).next_state = "Finish"
       /\ Started(current(p), "overlap_to_global")

\* C3: compute_projection_rhs_start issues exactly two transfers on the
\* pipeline's communicator, the native -> overlap scatter of X on channel 0
\* and the quadrature-index exchange on channel 1, and no two outstanding
\* transfers of one Transaction ever share a channel.
C3_TwoTransfersDistinctChannels ==
  \A p \in Active : \A n \in DOMAIN trans[p] :
    LET t == trans[p][n] IN
      /\ \A r1, r2 \in t.requests : r1.channel = r2.channel => r1 = r2
      /\ (t.next_state = "Intermediate" /\ pc[p] = "idle") =>
           /\ t.requests = {[op |-> "global_to_overlap", channel |-> 0],
                            [op |-> "export_to_ghosted_array", channel |-> 1]}
           /\ get_scatter(p, t.native_X_dof_handler).communicator
                = communicator[p]
           /\ active_cell_index_partitioner[p].communicator = communicator[p]
           /\ \A q \in Active \ {p} :
                /\ Needs(q, p) # {} /\ pc[q] = "idle" /\ trans[q] = << >>
                     => Len(net[<< p, q, 0 >>]) = 1
                /\ NeedsCells(q, p) # {} /\ pc[q] = "idle" /\ trans[q] = << >>
                     => Len(net[<< p, q, 1 >>]) = 1

C3_Witness ==
  \E p \in Active : \E q \in Active \ {p} :
    /\ trans[p] # << >> /\ trans[q] # << >>
    /\ current(p).next_state = "Intermediate"
    /\ current(q).next_state = "Intermediate"
    /\ pc[p] = "idle" /\ pc[q] = "idle"
    /\ net[<< p, q, 0 >>] # << >>
    /\ net[<< p, q, 1 >>] # << >>
    /\ net[<< q, p, 0 >>] # << >>
    /\ net[<< q, p, 1 >>] # << >>

\* the steps of process p
C4_Step(p) ==
  \/ compute_projection_rhs_start(p)
  \/ compute_projection_rhs_intermediate(p)
  \/ intermediate_global_to_overlap_finish(p)
  \/ intermediate_export_to_ghosted_array_finish(p)
  \/ intermediate_overlap_to_global_start(p)
  \/ compute_projection_rhs_finish(p)
  \/ finish_overlap_to_global_finish(p)

\* process p waits in the finish half of transfer op for a message of a
\* transfer that was started earlier
C4_WaitsIn(p, op, sources) ==
  /\ pc[p] = op \o "_finish"
  /\ Started(current(p), op)
  /\ ~Arrived(p, sources, ChannelOf(current(p), op))

\* C4: start-type steps never block on remote progress; a process can only
\* be blocked inside a finish half, waiting for a transfer started earlier.
C4_OnlyFinishBlocks ==
  \A p \in Active :
    /\ (/\ pc[p] = "idle"
        /\ Len(trans[p]) < MaxTrans
        /\ \A n \in DOMAIN trans[p] : trans[p][n].next_state = "Done")
         => ENABLED compute_projection_rhs_start(p)
    /\ pc[p] = "overlap_to_global_start"
         => ENABLED intermediate_overlap_to_global_start(p)
    /\ (pc[p] \notin {"idle", "aborted", "undefined"} /\ ~ENABLED C4_Step(p))
         => \/ C4_WaitsIn(p, "global_to_overlap",
                  global_to_overlap_sources(
                    p, get_scatter(p, current(p).native_X_dof_handler)))
            \/ C4_WaitsIn(p, "export_to_ghosted_array",
                  export_to_ghosted_array_sources(
                    p, active_cell_index_partitioner[p]))
            \/ C4_WaitsIn(p, "overlap_to_global", overlap_to_global_sources(p))

C4_Witness ==
  \E p \in Active : \E q \in Active \ {p} :
    /\ trans[p] # << >>
    /\ trans[q] = << >>
    /\ ENABLED compute_projection_rhs_start(q)
    /\ pc[p] = "global_to_overlap_finish"
    /\ ~ENABLED C4_Step(p)

\* C5: inside compute_projection_rhs_intermediate the X scatter and the
\* quadrature-index exchange started by start are both finished before the
\* F scatter is started on channel 0 and before next_state becomes Finish.
C5_FinishBeforeFStart ==
  \A p \in Active : \A n \in DOMAIN trans[p] :
    LET t == trans[p][n] IN
      (\/ Started(t, "overlap_to_global")
       \/ t.next_state = "Finish"
       \/ (n = Len(trans[p]) /\ pc[p] = "overlap_to_global_start"))
        => /\ ~Started(t, "global_to_overlap")
           /\ ~Started(t, "export_to_ghosted_array")
           /\ Started(t, "overlap_to_global")
                => ChannelOf(t, "overlap_to_global") = 0

C5_Witness ==
  \E p \in Active : \E q \in Active \ {p} :
    /\ trans[p] # << >>
    /\ current(p).next_state = "Finish"
    /\ Started(current(p), "overlap_to_global")
    /\ global_to_overlap_sources(
         p, get_scatter(p, current(p).native_X_dof_handler)) = {q}
    /\ export_to_ghosted_array_sources(p, active_cell_index_partitioner[p])
         = {q}
    /\ net[<< p, q, 0 >>] # << >>

\* Transactions of process p whose result transfer has finished
C6_Finished(p) ==
  {n \in DOMAIN trans[p] :
     trans[p][n].next_state = "Done" /\ trans[p][n].requests = {}}

\* what all processes' overlap result vectors of Transaction n hold for dof i
C6_Contributions(n, i) ==
  LET qs == {q \in Active : n \in DOMAIN trans[q]} IN
    SumOver(qs, [q \in qs |->
                   Accumulate(translation[q], trans[q][n].overlap_F_rhs, i)])

\* the overlap entries, on all processes, that reference native dof i
C6_References(i) ==
  {qk \in Active \X OverlapSizes :
     qk[2] \in DOMAIN translation[qk[1]] /\ translation[qk[1]][qk[2]] = i}

\* C6: after compute_projection_rhs_finish each entry i of F_rhs is its value
\* before plus the sum, over all processes and all overlap entries whose
\* table entry is i, of the overlap result values; scattering 1 from every
\* overlap entry into a zeroed vector leaves the number of references.
C6_AddReduction ==
  \A i \in Dofs :
    LET done == C6_Finished(Owner(i)) IN
      /\ F_rhs[i] = F_before[i]
                      + SumOver(done, [n \in done |-> C6_Contributions(n, i)])
      /\ (integrator = "unit" /\ F_before[i] = 0 /\ Cardinality(done) = 1)
           => F_rhs[i] = Cardinality(C6_References(i))

C6_Witness ==
  /\ n_procs = 2
  /\ integrator = "identity"
  /\ translation[1] = << 0, 0 >>
  /\ translation[2] = << 0, 1 >>
  /\ F_before[0] = 10
  /\ native_X[0] = 1
  /\ C6_Finished(1) = {1}
  /\ F_rhs[0] = 13

\* C7: once the native -> overlap transfer has finished, entry k of
\* overlap_X_vec is the native vector's value at TranslationTable[k],
\* whichever process owns it and however many entries read it, and the
\* native vector is unchanged.
C7_Gather ==
  /\ [](\A p \in Active : \A n \in DOMAIN trans[p] :
          LET t == trans[p][n] IN
            ~Started(t, "global_to_overlap") =>
              /\ Len(t.overlap_X_vec) = Len(translation[p])
              /\ \A k \in DOMAIN translation[p] :
                   t.overlap_X_vec[k] = native_X[translation[p][k]])
  /\ [][native_X' = native_X]_vars

C7_Witness ==
  /\ n_procs = 2
  /\ translation[1] = << 1, 1 >>
  /\ translation[2] = << 1, 0 >>
  /\ native_X[1] = 2
  /\ \A p \in Active :
       /\ trans[p] # << >>
       /\ ~Started(current(p), "global_to_overlap")
  /\ current(1).overlap_X_vec = << 2, 2 >>
  /\ current(2).overlap_X_vec = << 2, 1 >>

\* the round trip of C8 has run: one process, X holds i at index i, the
\* overlap result is the overlap copy of X, the result vector was zeroed
C8_RoundTripDone ==
  /\ n_procs = 1
  /\ integrator = "identity"
  /\ native_X = [i \in Dofs |-> i]
  /\ F_before = [i \in Dofs |-> 0]
  /\ \A j, k \in DOMAIN translation[1] :
       translation[1][j] = translation[1][k] => j = k
  /\ C6_Finished(1) = {1}

C9_QuadIndices ==
  \A p \in Active : \A n \in DOMAIN trans[p] :
    LET t == trans[p][n] IN
      ~Started(t, "export_to_ghosted_array") =>
        /\ Len(t.overlap_quad_indices) = Cardinality(overlap_tria[p])
        /\ \A k \in 1 .. Cardinality(overlap_tria[p]) :
             LET c == SortedSeq(overlap_tria[p])[k]
                 o == Owner(c)
             IN /\ n \in DOMAIN trans[o]
                /\ t.overlap_quad_indices[k] =
                     trans[o][n].native_quad_indices[
                       Rank(locally_owned_cells(o), c)]

C9_Witness ==
  /\ n_procs = 2
  /\ overlap_tria[1] = {0, 1}
  /\ overlap_tria[2] = {0}
  /\ \A p \in Active :
       /\ trans[p] # << >>
       /\ current(p).next_state = "Finish"
       /\ pc[p] = "idle"
  /\ current(1).overlap_quad_indices = << 1, 2 >>
  /\ current(2).overlap_quad_indices = << 1 >>

\* the registry of process p: handlers, overlap handlers and Scatters
C10_Registry(p) ==
  << native_dof_handlers[p], overlap_dof_handlers[p], scatters[p] >>

\* C10: add_dof_handler with a registered handler changes nothing, the first
\* call for a handler creates its overlap handler and its Scatter, and so
\* each distinct handler has exactly one of each after any sequence of calls.
C10_Idempotent ==
  [][\A p \in Procs : \A h \in Handlers :
       add_dof_handler(p, h) =>
         /\ is_registered(p, h) => C10_Registry(p)' = C10_Registry(p)
         /\ ~is_registered(p, h) =>
              /\ native_dof_handlers'[p] = Append(native_dof_handlers[p], h)
              /\ Len(overlap_dof_handlers'[p]) = Len(overlap_dof_handlers[p]) + 1
              /\ Len(scatters'[p]) = Len(scatters[p]) + 1
              /\ get_overlap_dof_handler(p, h)'.native = h
              /\ get_scatter(p, h)'.native = h
         /\ Len(overlap_dof_handlers'[p]) = Len(native_dof_handlers'[p])
         /\ Len(scatters'[p]) = Len(native_dof_handlers'[p])
         /\ \A j, k \in DOMAIN native_dof_handlers'[p] :
              native_dof_handlers'[p][j] = native_dof_handlers'[p][k] => j = k
    ]_vars

C10_Witness ==
  \E p \in Active :
    /\ n_add_calls[p] = 3
    /\ native_dof_handlers[p] = << "hB", "hA" >>
    /\ Len(scatters[p]) = 2

\* one of the three lookups is called on process p with handler h
C11_Lookup(p, h) ==
  \/ call_get_overlap_dof_handler(p, h)
  \/ call_get_overlap_dof_handler_const(p, h)
  \/ call_get_scatter(p, h)

\* C11: get_overlap_dof_handler (both overloads) and get_scatter called with
\* a handler that was never passed to add_dof_handler fail with an error and
\* return nothing; with a registered handler they return its own entry.
C11_UnregisteredLookupThrows ==
  [][\A p \in Procs : \A h \in Handlers :
       C11_Lookup(p, h) =>
         IF is_registered(p, h)
         THEN /\ ~outcome'[p].threw
              /\ Len(outcome'[p].value) = 1
              /\ outcome'[p].value[1].native = h
         ELSE /\ outcome'[p].threw
              /\ outcome'[p].value = << >>
    ]_vars

C11_Witness ==
  \E p \in Active :
    /\ native_dof_handlers[p] = << "hB" >>
    /\ outcome[p].call = "get_scatter"
    /\ outcome[p].handler = "hA"
    /\ outcome[p].threw

\* the handle process p gets from the next duplicate_communicator call
C12_Fresh(p) ==
  /\ communicator'[p] = n_duplicates[p] + 1
  /\ n_duplicates'[p] = n_duplicates[p] + 1
  /\ communicator'[p] # MPI_COMM_NULL
  /\ communicator'[p] # communicator[p]

C12_Step(p) ==
  IF pc[p] = "unconstructed" /\ pc'[p] = "idle"
  THEN C12_Fresh(p)
  ELSE IF n_reinits'[p] # n_reinits[p]
  THEN IF native_comm'[p] # native_comm[p]
       THEN C12_Fresh(p)
       ELSE /\ communicator'[p] = communicator[p]
            /\ n_duplicates'[p] = n_duplicates[p]
  ELSE IF pc'[p] = "destroyed" /\ pc[p] # "destroyed"
  THEN communicator'[p] \in {communicator[p], MPI_COMM_NULL}
  ELSE communicator'[p] = communicator[p]

\* C12: the communicator is duplicated by the constructor's reinit, replaced
\* only by a reinit whose native mesh is on another communicator than the
\* current mesh, kept identical by any other reinit, and changed by no phase
\* of a Transaction.
C12_CommunicatorDuplicatedOnce == [][\A p \in Procs : C12_Step(p)]_vars

C12_Witness ==
  \E p \in Active :
    /\ n_reinits[p] = 2
    /\ n_duplicates[p] = 2
    /\ communicator[p] = 2
    /\ trans[p] # << >>
    /\ current(p).next_state = "Done"
    /\ pc[p] = "idle"

\* what get_scatter returns for h was built for the overlap mesh and the
\* communicator the pipeline has now
C13_Current(p, h) ==
  /\ get_scatter(p, h).overlap_dofs = compute_overlap_to_native_dof_translation(p)
  /\ get_scatter(p, h).communicator = communicator[p]

\* C13: after reinit returns, every Scatter and translation table reachable
\* through the lookups was built against the new overlap mesh; nothing built
\* before the reinit is still returned for a registered handler.
C13_ReinitRebuilds ==
  [][\A p \in Procs : \A c \in Comms : \A t \in ReinitTables :
       reinit(p, c, t) =>
         \A h \in Handlers : is_registered(p, h)' => C13_Current(p, h)'
    ]_vars

\* handler hA was registered before a reinit that built another overlap mesh
\* on another communicator, and get_scatter still returns the old Scatter
C13_StaleScatter ==
  \E p \in Active :
    /\ pc[p] = "idle"
    /\ n_reinits[p] > 0
    /\ is_registered(p, "hA")
    /\ get_scatter(p, "hA").overlap_dofs # translation[p]
    /\ get_scatter(p, "hA").communicator # communicator[p]

\* C14: the destructor releases the communicator, and a failure of the
\* release is reported without an exception leaving the destructor.
C14_DestructorReports ==
  \A p \in Active :
    (pc[p] = "destroyed" /\ outcome[p].call = "~InteractionBase") =>
      /\ ~outcome[p].threw
      /\ outcome[p].ierr = 0 => communicator[p] = MPI_COMM_NULL
      /\ outcome[p].ierr # 0 => outcome[p].reported

\* what the code does keep: no exception leaves the destructor, a successful
\* MPI_Comm_free releases the handle, a failure is reported in a DEBUG build
C14_DestructorNothrow ==
  \A p \in Active :
    (pc[p] = "destroyed" /\ outcome[p].call = "~InteractionBase") =>
      /\ ~outcome[p].threw
      /\ outcome[p].ierr = 0 =>
           communicator[p] = MPI_COMM_NULL /\ freed[p] # {}
      /\ (outcome[p].ierr # 0 /\ debug) => outcome[p].reported

\* without DEBUG, MPI_Comm_free failed and the destructor reported nothing
C14_SilentFailure ==
  \E p \in Active :
    /\ ~debug
    /\ pc[p] = "destroyed"
    /\ outcome[p].ierr # 0
    /\ ~outcome[p].reported
    /\ ~outcome[p].threw
    /\ communicator[p] # MPI_COMM_NULL

\* the points a box of the model can contain
C15_Points == 0 .. 2 * MaxCoord

\* the closed intervals of a and b on axis d share a point
C15_SharePoint(a, b, d) ==
  \E x \in C15_Points : /\ a.lower[d] <= x /\ x <= a.upper[d]
                    /\ b.lower[d] <= x /\ x <= b.upper[d]

\* C15: for boxes with lower <= upper on every axis, intersects(a, b) is true
\* exactly when on every axis the closed intervals of a and b share a point:
\* true for overlapping, touching and nested boxes (either way round), false
\* as soon as the intervals are disjoint on one axis.
C15_IntersectsClosedBoxes ==
  intersects_result # << >> =>
    /\ intersects_result[1] = (\A d \in Axes : C15_SharePoint(box_a, box_b, d))
    /\ (box_a = Box(0, 2, 0, 2) /\ box_b = Box(1, 3, 0, 2)) => intersects_result[1]
    /\ (box_a = Box(0, 1, 0, 1) /\ box_b = Box(2, 3, 0, 1)) => ~intersects_result[1]
    /\ (box_a = Box(0, 3, 0, 3) /\ box_b = Box(1, 2, 1, 2)) => intersects_result[1]
    /\ (box_a = Box(1, 2, 1, 2) /\ box_b = Box(0, 3, 0, 3)) => intersects_result[1]

\* two boxes that touch in one corner only
C15_Witness ==
  /\ box_a = Box(0, 1, 0, 1)
  /\ box_b = Box(1, 2, 1, 2)
  /\ intersects_result = << TRUE >>

\* the box bx intersects one region box on all axes at once
C16_MatchesOneBox(bx) ==
  \E k \in DOMAIN patch_bboxes :
    \A d \in Axes : C15_SharePoint(bx, patch_bboxes[k], d)

\* the box that FEIntersectionPredicate holds for active cell c (the single
\* precision box of the cell's nodes) intersects one region box in this way
C16_FullBoxMatch(c) == C16_MatchesOneBox(fbox(cell_bbox[active_cell_index(c)]))

\* C16: for a leaf cell both predicates return true exactly when the cell's
\* box intersects at least one region box as a full box; with no region boxes
\* they return false, and a cell that overlaps different boxes on different
\* axes but no single box on all axes is not matched.
C16_LeafPredicate ==
  LET c == predicate_result.cell IN
    (predicate_result.predicate # "none" /\ is_active(c)) =>
      /\ predicate_result.predicate = "TriaIntersectionPredicate" =>
           predicate_result.value[1]
             = C16_MatchesOneBox(cell_bbox[active_cell_index(c)])
      /\ predicate_result.predicate = "FEIntersectionPredicate" =>
           predicate_result.value[1] = C16_FullBoxMatch(c)
      /\ patch_bboxes = << >> => ~predicate_result.value[1]

\* the cell overlaps the first box on the first axis only and the second box
\* on the second axis only
C16_Witness ==
  /\ predicate_result.predicate = "FEIntersectionPredicate"
  /\ is_active(predicate_result.cell)
  /\ cell_bbox[active_cell_index(predicate_result.cell)] = Box(0, 1, 0, 1)
  /\ patch_bboxes = << Box(0, 1, 2, 3), Box(2, 3, 0, 1) >>
  /\ predicate_result.value = << FALSE >>

\* the cells reachable from the cells of S through at most n child links
RECURSIVE C17_Reach(_, _)
C17_Reach(S, n) ==
  IF n = 0 THEN S
  ELSE C17_Reach(S \cup {x \in MeshCells : \E c \in S : x \in Range(children(c))},
                 n - 1)

C17_ActiveDescendants(c) ==
  {x \in C17_Reach({c}, Cardinality(MeshCells)) : is_active(x)}

\* C17: for a non-leaf cell FEIntersectionPredicate returns true exactly when
\* at least one active descendant, at any depth, intersects a region box; a
\* cell that is neither active nor has children never yields true.
C17_NonLeafPredicate ==
  LET c == predicate_result.cell IN
    predicate_result.predicate = "FEIntersectionPredicate" =>
      /\ ~is_active(c) =>
           predicate_result.value[1]
             = (\E x \in C17_ActiveDescendants(c) : C16_FullBoxMatch(x))
      /\ (~is_active(c) /\ ~has_children(c)) => ~predicate_result.value[1]

\* only a grandchild of the coarse cell intersects a region box
C17_Witness ==
  /\ predicate_result.predicate = "FEIntersectionPredicate"
  /\ predicate_result.cell = 0
  /\ predicate_result.value = << TRUE >>
  /\ ~C16_FullBoxMatch(2)
  /\ ~C16_FullBoxMatch(3)
  /\ C16_FullBoxMatch(4)

\* C18: after the constructor every process holds, for every active cell,
\* the box its owner computed (each process wrote only its own cells' boxes,
\* zero elsewhere, and the arrays were summed), and the constructor requires
\* every box to have strictly positive volume.
C18_ReducedBoxes ==
  \A p \in Active :
    /\ fe_pc[p] = "filled" =>
         \A i \in ActiveIndices :
           active_cell_bboxes[p][i]
             = IF Owner(i) = p THEN fbox(cell_bbox[i]) ELSE ZeroBox
    /\ fe_pc[p] = "constructed" =>
         \A i \in ActiveIndices :
           /\ active_cell_bboxes[p][i] = fbox(cell_bbox[i])
           /\ volume(active_cell_bboxes[p][i]) > 0

\* what the code does keep: the summed boxes in every build, the positive
\* volumes in a DEBUG build
C18_SummedBoxes ==
  \A p \in Active :
    fe_pc[p] = "constructed" =>
      \A i \in ActiveIndices :
        /\ active_cell_bboxes[p][i] = fbox(cell_bbox[i])
        /\ debug => volume(active_cell_bboxes[p][i]) > 0

\* without DEBUG the constructor accepted a box of volume zero on two processes
C18_FlatBoxAccepted ==
  /\ ~debug
  /\ n_procs = 2
  /\ \A p \in Active : fe_pc[p] = "constructed"
  /\ \E i \in ActiveIndices : volume(active_cell_bboxes[1][i]) = 0

\* reinit has just built the overlap mesh of process p: the user indices are
\* 0, 1, 2, ... in the order of construction, each within native_cells, and
\* each overlap cell has the barycenter of the native cell recorded for it
C19_Built(p) ==
  n_reinits'[p] # n_reinits[p] =>
    /\ Len(native_cells'[p]) = Len(overlap_cells'[p])
    /\ \A k \in DOMAIN overlap_cells'[p] :
         LET cell == overlap_cells'[p][k] IN
           /\ cell.user_index = k - 1
           /\ cell.user_index < Len(native_cells'[p])
           /\ barycenter(native_cell(native_cells'[p][k]), native_moves)
                = cell.barycenter

\* the user index of the looked-up cell is within native_cells and the
\* native cell recorded under it has the cell's barycenter
C19_Agree(p, k) ==
  LET cell == overlap_cells[p][k] IN
    /\ cell.user_index < Len(native_cells[p])
    /\ barycenter(native_cell(native_cells[p][cell.user_index + 1]), native_moves)
         = cell.barycenter

\* a get_native_cell call has just ended: it returned the recorded native
\* cell when that cell agrees with the overlap cell; when `checked`, it was
\* rejected in every other case
C19_Lookup(checked) ==
  LET r == native_cell_result' IN
    r # native_cell_result =>
      LET cell == overlap_cells[r.process][r.cell] IN
        /\ C19_Agree(r.process, r.cell) =>
             /\ r.status = "returned"
             /\ r.value = native_cells[r.process][cell.user_index + 1]
        /\ (checked /\ ~C19_Agree(r.process, r.cell)) => r.status = "rejected"

\* C19: every overlap cell corresponds to one native cell: add_native_cell
\* returns consecutive indices within native_cells, get_native_cell returns
\* the native cell recorded under the cell's user index, whose barycenter
\* equals the overlap cell's, and a lookup where the barycenters differ or
\* the user index is out of range is rejected.
C19_Correspondence ==
  [][(\A p \in Procs : C19_Built(p)) /\ C19_Lookup(TRUE)]_vars

\* what the code does keep: the indices and the returned cell in every
\* build, the rejections in a DEBUG build
C19_CorrespondenceChecked ==
  [][(\A p \in Procs : C19_Built(p)) /\ C19_Lookup(debug)]_vars

\* without DEBUG, after the native mesh moved, get_native_cell returned a
\* native cell whose barycenter is not the overlap cell's
C19_StaleLookupAccepted ==
  LET r == native_cell_result IN
    /\ ~debug
    /\ native_moves > 0
    /\ r.status = "returned"
    /\ r.cell \in DOMAIN overlap_cells[r.process]
    /\ overlap_cells[r.process][r.cell].user_index < Len(native_cells[r.process])
    /\ r.value = native_cells[r.process][overlap_cells[r.process][r.cell].user_index + 1]
    /\ barycenter(native_cell(r.value), native_moves)
         # overlap_cells[r.process][r.cell].barycenter

\* the native active cells whose box intersects a region box of process p
C20_Matching(p) ==
  {i \in ActiveIndices :
     \E k \in DOMAIN region_bboxes[p] :
       \A d \in Axes : C15_SharePoint(cell_bbox[i], region_bboxes[p][k], d)}

C21_NativeIndex(p, k) == active_cell_index(native_cell(native_cells[p][k]))

\* C21: get_cell_iterators_in_active_native_order returns every active
\* overlap cell exactly once, in strictly ascending order of the active cell
\* index of the corresponding native cell, whatever the construction order.
C21_ActiveNativeOrder ==
  \A p \in Active :
    n_reinits[p] > 0 =>
      LET order == get_cell_iterators_in_active_native_order(p) IN
        /\ Len(order) = Len(overlap_cells[p])
        /\ \A k \in DOMAIN overlap_cells[p] :
             Cardinality({j \in DOMAIN order : order[j] = k}) = 1
        /\ \A i \in DOMAIN order : \A j \in DOMAIN order :
             i < j => C21_NativeIndex(p, order[i]) < C21_NativeIndex(p, order[j])

\* the overlap mesh was built in descending order of the native index
C21_Witness ==
  /\ n_reinits[1] > 0
  /\ Len(overlap_cells[1]) = 3
  /\ C21_NativeIndex(1, 1) > C21_NativeIndex(1, 2)
  /\ C21_NativeIndex(1, 2) > C21_NativeIndex(1, 3)
  /\ get_cell_iterators_in_active_native_order(1) = << 3, 2, 1 >>

\* the last call of start by process p was given inputs that lines 246-262
\* assert against
C22_BadInputs(p) ==
  /\ outcome[p].call = "compute_projection_rhs_start"
  /\ \/ outcome[p].value[1] # n_locally_owned_active_cells(p)
     \/ MPI_Comm_compare(p, outcome[p].value[2]) # "MPI_CONGRUENT"
     \/ MPI_Comm_compare(p, outcome[p].value[3]) # "MPI_CONGRUENT"

\* the call was rejected fatally with no Transaction and no transfer
C22_Rejected(p) ==
  /\ pc[p] = "aborted"
  /\ trans[p] = << >>
  /\ \A q \in Procs : \A ch \in Channels : net[<< p, q, ch >>] = << >>

\* C22: compute_projection_rhs_start rejects its inputs fatally, before it
\* creates a Transaction or issues a transfer, when quad_indices has not one
\* entry per locally owned active cell or when the communicator of X or of
\* F_rhs is not the pipeline's.
C22_StartRejectsBadInputs ==
  \A p \in Active : C22_BadInputs(p) => C22_Rejected(p)

\* C22 as the code has it: the rejection happens in builds with DEBUG
C22_StartRejectsBadInputsChecked ==
  \A p \in Active : (debug /\ C22_BadInputs(p)) => C22_Rejected(p)

\* a debug build rejected a vector on another communicator
C22_WitnessChecked ==
  /\ debug
  /\ C22_BadInputs(1)
  /\ outcome[1].value[2] = "sub"
  /\ C22_Rejected(1)

\* a build without DEBUG took X on another communicator and started both
\* transfers
C22_Witness ==
  /\ ~debug
  /\ C22_BadInputs(1)
  /\ outcome[1].value[2] = "sub"
  /\ Len(trans[1]) = 1
  /\ \E q \in Procs : net[<< 1, q, X_channel >>] # << >>

\* the last call of start by process p named a handler that is not registered
C30_Unregistered(p) ==
  /\ outcome[p].call = "compute_projection_rhs_start"
  /\ \/ ~is_registered(p, X_dof_handler)
     \/ ~is_registered(p, F_dof_handler)

\* C30: a call of start whose X or F handler is not registered fails before
\* any transfer is issued: no message is in flight and no Transaction is
\* returned.
C30_UnregisteredStartFails ==
  \A p \in Active :
    C30_Unregistered(p) =>
      /\ outcome[p].threw \/ pc[p] = "aborted"
      /\ trans[p] = << >>
      /\ \A q \in Procs : \A ch \in Channels : net[<< p, q, ch >>] = << >>

\* start threw on F's handler although X's is registered and the other
\* process needs entries of X from this one
C30_Witness ==
  /\ n_procs = 2
  /\ outcome[1].call = "compute_projection_rhs_start"
  /\ outcome[1].threw
  /\ outcome[1].handler = F_dof_handler
  /\ is_registered(1, X_dof_handler)
  /\ Needs(2, 1) # {}
  /\ trans[1] = << >>

\* process p's overlap mesh is empty
C23_EmptyOverlap(p) == overlap_tria[p] = {} /\ translation[p] = << >>

\* the waits of a process with an empty overlap mesh are over at once, its
\* vectors have length zero, and no other process waits for a message it
\* does not send
C23_EmptyRuns ==
  \A p \in Active :
    C23_EmptyOverlap(p) =>
      /\ \A n \in DOMAIN trans[p] :
           /\ trans[p][n].overlap_X_vec = << >>
           /\ trans[p][n].overlap_F_rhs = << >>
           /\ trans[p][n].overlap_quad_indices = << >>
      /\ pc[p] = "global_to_overlap_finish" =>
           Arrived(p, global_to_overlap_sources(
                        p, get_scatter(p, current(p).native_X_dof_handler)),
                   X_channel)
      /\ pc[p] = "export_to_ghosted_array_finish" =>
           Arrived(p, export_to_ghosted_array_sources(
                        p, active_cell_index_partitioner[p]), quad_channel)
      /\ \A q \in Active \ {p} :
           /\ p \notin overlap_to_global_sources(q)
           /\ (/\ pc[q] = "global_to_overlap_finish"
               /\ Needs(q, p) # {}
               /\ Len(trans[p]) >= Len(trans[q]))
                => net[<< p, q, X_channel >>] # << >>
           /\ (/\ pc[q] = "export_to_ghosted_array_finish"
               /\ NeedsCells(q, p) # {}
               /\ Len(trans[p]) >= Len(trans[q]))
                => net[<< p, q, quad_channel >>] # << >>

\* what the other processes sent for native dof i of process p
C23_FromOthers(p, i) ==
  LET from == {q \in Active \ {p} :
                 /\ net[<< q, p, F_channel >>] # << >>
                 /\ i \in DOMAIN Head(net[<< q, p, F_channel >>])}
  IN SumOver(from, [q \in from |-> Head(net[<< q, p, F_channel >>])[i]])

\* the finish of a process with an empty overlap mesh adds to its owned
\* entries what the other processes sent and nothing of its own
C23_EmptyFinish ==
  \A p \in Active :
    (/\ C23_EmptyOverlap(p)
     /\ pc[p] = "overlap_to_global_finish"
     /\ pc'[p] = "idle")
      => /\ current(p)'.next_state = "Done"
         /\ \A i \in locally_owned_dofs(p) :
              F_rhs'[i] = F_rhs[i] + C23_FromOthers(p, i)

\* C23: a process whose overlap mesh is empty still runs start, intermediate
\* and finish to Done, without error and without blocking the others, and
\* its locally owned entries of the native result are unchanged by its own
\* contribution.
C23_EmptyOverlapParticipates == []C23_EmptyRuns /\ [][C23_EmptyFinish]_vars

\* process 1 has an empty overlap mesh, process 2 has native dof 0 of
\* process 1 in its overlap; both are Done and dof 0 got process 2's share
C23_Witness ==
  /\ n_procs = 2
  /\ C23_EmptyOverlap(1)
  /\ 0 \in Range(translation[2])
  /\ \A p \in Active : trans[p] # << >> /\ current(p).next_state = "Done"
  /\ \A p \in Active : pc[p] = "idle"
  /\ F_rhs[0] # F_before[0]

\* the overlap source vector of process p's n-th Transaction, were it made
\* of that Transaction's X only
C24_OwnX(p, n) == [k \in DOMAIN translation[p] |-> batch_X(n)[translation[p][k]]]

\* likewise its overlap quad indices
C24_OwnQuad(p, n) ==
  LET ghost == active_cell_index_partitioner[p].ghost IN
    [k \in 1 .. Cardinality(ghost) |->
       LET c == SortedSeq(ghost)[k] IN
         batch_quad_indices(Owner(c), n)[Rank(locally_owned_cells(Owner(c)), c)]]

\* likewise entry i of its native result
C24_OwnF(n, i) ==
  F_before[i]
    + SumOver(Active, [q \in Active |->
                         Accumulate(translation[q], C24_OwnX(q, n), i)])

\* what process p's n-th Transaction holds is that Transaction's data
C24_Isolated(p, n) ==
  LET t == trans[p][n] IN
    /\ t.next_state \in {"Finish", "Done"} =>
         /\ t.overlap_X_vec = C24_OwnX(p, n)
         /\ t.overlap_quad_indices = C24_OwnQuad(p, n)
    /\ t.next_state = "Done" =>
         \A i \in locally_owned_dofs(p) : t.native_F_rhs[i] = C24_OwnF(n, i)

\* C24: when several Transactions are started before any is drained and
\* intermediate and finish are then called for each in start order, the
\* overlap source vector, the overlap quad indices and the native result of
\* each Transaction hold that Transaction's data only.
C24_BatchIsolated ==
  \A p \in Active : \A n \in DOMAIN trans[p] : C24_Isolated(p, n)

\* process p called finish for a Transaction while a later one of the batch
\* had not had its intermediate call
C24_FinishedEarly(p) ==
  \E m \in DOMAIN trans[p] : \E n \in DOMAIN trans[p] :
    /\ m < n
    /\ trans[p][m].next_state = "Done"
    /\ trans[p][n].next_state = "Intermediate"

\* C24 as the model has it: while no process calls finish before every
\* intermediate of the batch, a step from a state in which every Transaction
\* holds its own data leads to such a state
C24_BatchIsolatedDrainedInOrder ==
  [][(/\ C24_BatchIsolated
      /\ \A p \in Active : ~C24_FinishedEarly(p) /\ ~C24_FinishedEarly(p)')
       => C24_BatchIsolated']_vars

\* two Transactions on exchanged handlers, every intermediate before any
\* finish: both are Done on both processes with their own data
C24_WitnessDrainedInOrder ==
  /\ n_procs = 2
  /\ X_dof_handler = "hB"
  /\ translation[1] = << 0, 1 >>
  /\ translation[2] = << 0, 1 >>
  /\ \A p \in Active :
       /\ Len(trans[p]) = MaxBatch
       /\ \A n \in DOMAIN trans[p] :
            trans[p][n].next_state = "Done" /\ C24_Isolated(p, n)

\* process 2 finished its first Transaction before the intermediate call of
\* the second: the native result of the first lacks process 1's share
C24_Witness ==
  /\ n_procs = 2
  /\ X_dof_handler = "hB"
  /\ trans[2] # << >>
  /\ trans[2][1].next_state = "Done"
  /\ trans[2][1].native_F_rhs[1] # C24_OwnF(1, 1)
  /\ C24_FinishedEarly(2)

\* the pipeline's own state on process p
C25_PipelineState(p) ==
  << overlap_tria[p], translation[p], native_dof_handlers[p],
     overlap_dof_handlers[p], scatters[p], communicator[p],
     active_cell_index_partitioner[p], quad_index_work_size(p),
     n_quad_index_requests(p) >>

\* a step of process p inside start, intermediate or finish
C25_PhaseStep(p) ==
  \/ trans'[p] # trans[p]
  \/ pc[p] \in {"global_to_overlap_finish", "export_to_ghosted_array_finish",
                "overlap_to_global_start", "overlap_to_global_finish"}
  \/ pc'[p] \in {"global_to_overlap_finish", "export_to_ghosted_array_finish",
                 "overlap_to_global_start", "overlap_to_global_finish"}

\* a step of the constructor (which runs reinit), of reinit, of
\* add_dof_handler, or the destructor ending the pipeline
C25_ModifierStep(p) ==
  \/ pc[p] = "unconstructed"
  \/ n_reinits'[p] # n_reinits[p]
  \/ n_add_calls'[p] # n_add_calls[p]
  \/ pc'[p] = "destroyed"

\* C25: start, intermediate and finish leave the overlap mesh, the registered
\* native handlers, their overlap handlers and translation tables, the
\* communicator and the sizes of the quadrature-index plan as they were; only
\* reinit and add_dof_handler modify them.
C25_PhasesLeavePipelineState ==
  [][\A p \in Procs :
       /\ C25_PhaseStep(p) => C25_PipelineState(p)' = C25_PipelineState(p)
       /\ C25_PipelineState(p)' # C25_PipelineState(p) => C25_ModifierStep(p)]_vars

\* a Transaction ran to Done on a pipeline with a nonempty overlap mesh and
\* two registered handlers
C25_Witness ==
  /\ n_reinits[1] > 0
  /\ overlap_tria[1] # {}
  /\ Len(native_dof_handlers[1]) = 2
  /\ trans[1] # << >>
  /\ current(1).next_state = "Done"
  /\ pc[1] = "idle"

\* every process has made its calls and every Transaction is Done
C26_AllDone ==
  \A p \in Active :
    /\ pc[p] = "idle"
    /\ Len(trans[p]) = MaxTrans
    /\ \A n \in DOMAIN trans[p] : trans[p][n].next_state = "Done"

\* C26: if every process calls start, then intermediate, then finish, then
\* under fair message delivery every call returns on every process and every
\* Transaction reaches Done, whatever the relative speed of the processes.
C26_EveryTransactionDone == <>[]C26_AllDone

\* both processes are Done, each having waited for the other's entries
C26_Witness ==
  /\ n_procs = 2
  /\ Needs(1, 2) # {}
  /\ Needs(2, 1) # {}
  /\ C26_AllDone

\* the transfers of Transaction t that are started and not finished
C27_Outstanding(t) == {r.op : r \in t.requests}

\* what is outstanding fits the Transaction's state: the X scatter and the
\* quadrature-index exchange before the F scatter starts, the F scatter alone
\* after it, nothing when Done
C27_Paired(t) ==
  /\ t.next_state = "Intermediate" =>
       /\ C27_Outstanding(t) \subseteq {"global_to_overlap", "export_to_ghosted_array"}
       /\ "global_to_overlap" \in C27_Outstanding(t) =>
            "export_to_ghosted_array" \in C27_Outstanding(t)
  /\ t.next_state = "Finish" => C27_Outstanding(t) = {"overlap_to_global"}
  /\ t.next_state = "Done" => C27_Outstanding(t) = {}

\* a finish is issued only for a transfer that is outstanding and ends it,
\* and nothing else ends a transfer
C27_FinishStep(p) ==
  /\ \A op \in {"global_to_overlap", "export_to_ghosted_array", "overlap_to_global"} :
       (pc[p] = op \o "_finish" /\ pc'[p] # pc[p]) =>
         /\ op \in C27_Outstanding(current(p))
         /\ C27_Outstanding(current(p)') = C27_Outstanding(current(p)) \ {op}
  /\ \A n \in DOMAIN trans[p] :
       \A op \in C27_Outstanding(trans[p][n]) \ C27_Outstanding(trans'[p][n]) :
         pc[p] = op \o "_finish"

\* C27: within one Transaction every transfer that is started is finished
\* exactly once and in the order it was started on its channel, no finish is
\* issued for a transfer that was not started, and when next_state is Done
\* no transfer of the Transaction is outstanding.
C27_TransfersPaired ==
  /\ [](\A p \in Active : \A n \in DOMAIN trans[p] : C27_Paired(trans[p][n]))
  /\ [][\A p \in Active : C27_FinishStep(p)]_vars

\* C27 as the code has it: the pairing holds in a build with DEBUG
C27_TransfersPairedChecked ==
  /\ [](debug => \A p \in Active : \A n \in DOMAIN trans[p] : C27_Paired(trans[p][n]))
  /\ [][debug => \A p \in Active : C27_FinishStep(p)]_vars

\* a build with DEBUG ran a Transaction to Done, its three transfers finished
C27_WitnessChecked ==
  /\ debug
  /\ n_procs = 2
  /\ Needs(1, 2) # {}
  /\ trans[1] # << >>
  /\ current(1).next_state = "Done"
  /\ C27_Outstanding(current(1)) = {}

\* a build without DEBUG took finish right after start: the Transaction is
\* Done with the X scatter and the quadrature-index exchange outstanding
C27_Witness ==
  /\ ~debug
  /\ trans[1] # << >>
  /\ current(1).next_state = "Done"
  /\ C27_Outstanding(current(1)) = {"global_to_overlap", "export_to_ghosted_array"}

\* entry j of the three vectors belongs to one registration
C28_Aligned(p) ==
  /\ Len(overlap_dof_handlers[p]) = Len(native_dof_handlers[p])
  /\ Len(scatters[p]) = Len(native_dof_handlers[p])
  /\ \A j \in DOMAIN native_dof_handlers[p] :
       /\ overlap_dof_handlers[p][j] =
            new_overlap_dof_handler(p, native_dof_handlers[p][j])
       /\ scatters[p][j].native = native_dof_handlers[p][j]

\* the lookups for a registered handler return after the step what they
\* returned before it
C28_Stable(p) ==
  \A h \in Handlers :
    is_registered(p, h) =>
      /\ is_registered(p, h)'
      /\ get_overlap_dof_handler(p, h)' = get_overlap_dof_handler(p, h)
      /\ get_scatter(p, h)' = get_scatter(p, h)

\* C28: after any sequence of add_dof_handler calls the three registry
\* vectors have the same length and entry j of each belongs to the same
\* registration, so the lookups return the objects created when the handler
\* was first registered, and further registrations never change that.
C28_RegistryAligned ==
  /\ [](\A p \in Active :
          /\ C28_Aligned(p)
          /\ \A h \in Handlers :
               is_registered(p, h) =>
                 /\ get_overlap_dof_handler(p, h).native = h
                 /\ get_scatter(p, h).native = h)
  /\ [][\A p \in Active : C28_Stable(p)]_vars

\* hB was registered first, hA after it, and a third call changed nothing
C28_Witness ==
  /\ n_add_calls[1] = 3
  /\ native_dof_handlers[1] = << "hB", "hA" >>
  /\ get_overlap_dof_handler(1, "hB") = overlap_dof_handlers[1][1]
  /\ get_scatter(1, "hA") = scatters[1][2]

\* C29: add_dof_handler called with a handler that is not built on the
\* pipeline's native mesh fails fatally and leaves the registry exactly as it
\* was.
C29_ForeignHandlerRejected ==
  /\ [](\A p \in Active : \A j \in DOMAIN native_dof_handlers[p] :
          native_dof_handlers[p][j] \notin ForeignHandlers)
  /\ [][\A p \in Active : \A h \in ForeignHandlers :
          (add_dof_handler(p, h) \/ add_dof_handler_throws(p, h)) =>
            /\ outcome'[p].threw
            /\ outcome'[p].call = "add_dof_handler"
            /\ C10_Registry(p)' = C10_Registry(p)]_vars

\* the call with the foreign handler threw on a pipeline that has a handler
\* registered
C29_Witness ==
  /\ outcome[1].call = "add_dof_handler"
  /\ outcome[1].threw
  /\ outcome[1].handler \in ForeignHandlers
  /\ native_dof_handlers[1] = << "hA" >>
  /\ Len(scatters[1]) = 1

\* the communicators process p's pipeline has duplicated so far
C31_Duplicated(p) == 1 .. n_duplicates[p]

\* those of them that have not been released
C31_Held(p) == C31_Duplicated(p) \ freed[p]

\* the destructor of process p's pipeline has run and MPI_Comm_free succeeded
C31_Destroyed(p) ==
  /\ pc[p] = "destroyed"
  /\ outcome[p].call = "~InteractionBase"
  /\ outcome[p].ierr = 0

\* C31: every communicator the pipeline duplicates is released exactly once
\* by the time the pipeline is destroyed, for any sequence of reinit calls,
\* one that replaces the communicator included, and the pipeline holds at
\* most one duplicated communicator at any time.
C31_CommunicatorsReleased ==
  \A p \in Active :
    /\ freed[p] \subseteq C31_Duplicated(p)
    /\ Cardinality(C31_Held(p)) <= 1
    /\ C31_Destroyed(p) => C31_Held(p) = {}

\* C31 as the code has it: only the communicator the pipeline has last is
\* released, and all is released when no reinit replaced the communicator
C31_LastCommunicatorReleased ==
  \A p \in Active :
    /\ freed[p] \subseteq C31_Duplicated(p)
    /\ C31_Destroyed(p) => freed[p] = {n_duplicates[p]}
    /\ n_duplicates[p] <= 1 =>
         /\ Cardinality(C31_Held(p)) <= 1
         /\ C31_Destroyed(p) => C31_Held(p) = {}

\* a pipeline that never replaced its communicator was destroyed and its one
\* duplicate released
C31_WitnessChecked ==
  /\ C31_Destroyed(1)
  /\ n_reinits[1] > 0
  /\ n_duplicates[1] = 1
  /\ freed[1] = {1}

\* a reinit on another communicator replaced the first duplicate, and the
\* destructor released the second only
C31_Witness ==
  /\ C31_Destroyed(1)
  /\ n_duplicates[1] = 2
  /\ freed[1] = {2}
  /\ C31_Held(1) = {1}

\* every process has run start, intermediate and finish
C32_Complete ==
  \A p \in Active :
    /\ pc[p] = "idle"
    /\ trans[p] # << >>
    /\ \A n \in DOMAIN trans[p] : trans[p][n].next_state = "Done"

\* C32: with the base pipeline, which integrates nothing between the
\* transfers, overlap_F_rhs is zero-filled in start and not written
\* afterwards, and a complete start, intermediate, finish run leaves the
\* caller's F_rhs equal to its value before start on every process.
C32_BasePipelineLeavesF ==
  integrator = "none" =>
    /\ \A p \in Active : \A n \in DOMAIN trans[p] :
         trans[p][n].overlap_F_rhs = Zeros(Len(translation[p]))
    /\ C32_Complete => F_rhs = F_before

\* two processes whose overlaps hold each other's dofs ran the base pipeline
\* to Done on a result vector that was not zero
C32_Witness ==
  /\ integrator = "none"
  /\ n_procs = 2
  /\ Needs(1, 2) # {}
  /\ Needs(2, 1) # {}
  /\ C32_Complete
  /\ \A i \in Dofs : F_before[i] # 0
  /\ F_rhs = F_before

====
